---------------------------- MODULE Spec2Model ----------------------------
(***************************************************************************)
(* A model of the VA ClaimMate workspace engine (src/app.py) and of the    *)
(* table-style symptom mapper of its earlier variants                      *)
(* (src/unnamed/part_000).                                                 *)
(*                                                                         *)
(* Text is modelled by TLA+ strings, used as sequences of characters       *)
(* (Len, \o, SubSeq).  A Python dict is a function from its keys, a list   *)
(* is a sequence.                                                          *)
(***************************************************************************)
EXTENDS Integers, Sequences, FiniteSets, TLC

VARIABLES
    storage,    \* the file DATA_FILE: absent, unreadable, not JSON, or a JSON value
    sess,       \* per browser session: st.session_state (app_data, widgets)
    now,        \* the clock read by datetime.utcnow()
    runs,       \* number of script runs so far (bounded)
    arg,        \* input of the function under study (function-level specifications)
    out,        \* its result
    pc          \* position of the function-level specification

vars == <<storage, sess, now, runs, arg, out, pc>>

---------------------------------------------------------------------------
(* Python string helpers *)

\* The character of s at position i (1-based).
Ch(s, i) == SubSeq(s, i, i)

\* s[:n]
Prefix(s, n) == IF Len(s) <= n THEN s ELSE SubSeq(s, 1, n)

\* s[n:] with n counted from 0
Suffix(s, n) == IF n >= Len(s) THEN "" ELSE SubSeq(s, n + 1, Len(s))

\* Characters str.strip() removes.
Whitespace == {" ", "\t", "\n", "\r"}

RECURSIVE LStrip(_)
LStrip(s) ==
    IF Len(s) = 0 THEN s
    ELSE IF Ch(s, 1) \in Whitespace THEN LStrip(Suffix(s, 1)) ELSE s

RECURSIVE RStrip(_)
RStrip(s) ==
    IF Len(s) = 0 THEN s
    ELSE IF Ch(s, Len(s)) \in Whitespace THEN RStrip(Prefix(s, Len(s) - 1)) ELSE s

\* str.strip()
Strip(s) == RStrip(LStrip(s))

\* sub in s
Contains(s, sub) ==
    \E i \in 1..(Len(s) - Len(sub) + 1) : SubSeq(s, i, i + Len(sub) - 1) = sub

\* s.startswith(p)
StartsWith(s, p) == Len(p) <= Len(s) /\ SubSeq(s, 1, Len(p)) = p

\* s.split(sep) for a one-character separator: always at least one piece.
\* seps is the set of positions of the separator not yet passed.
RECURSIVE SplitFrom(_, _, _)
SplitFrom(s, seps, start) ==
    IF seps = {} THEN <<Suffix(s, start - 1)>>
    ELSE LET p == CHOOSE x \in seps : \A y \in seps : x <= y
         IN <<SubSeq(s, start, p - 1)>> \o SplitFrom(s, seps \ {p}, p + 1)

Split(s, sep) == SplitFrom(s, {i \in 1..Len(s) : Ch(s, i) = sep}, 1)

\* s.splitlines() on "\n": no trailing empty line, "" gives [].
SplitLines(s) ==
    IF s = "" THEN <<>>
    ELSE LET parts == Split(s, "\n")
         IN IF parts[Len(parts)] = "" THEN SubSeq(parts, 1, Len(parts) - 1) ELSE parts

\* sep.join(parts)
RECURSIVE Join(_, _)
Join(sep, parts) ==
    IF Len(parts) = 0 THEN ""
    ELSE IF Len(parts) = 1 THEN parts[1]
    ELSE parts[1] \o sep \o Join(sep, Tail(parts))

\* str(n) for a natural number
Digit(d) == SubSeq("0123456789", d + 1, d + 1)

RECURSIVE Digits(_)
Digits(n) == IF n < 10 THEN Digit(n) ELSE Digits(n \div 10) \o Digit(n % 10)

\* c repeated n times
RECURSIVE Rep(_, _)
Rep(c, n) ==
    IF n = 0 THEN ""
    ELSE IF n % 2 = 1 THEN Rep(c, n - 1) \o c
    ELSE LET h == Rep(c, n \div 2) IN h \o h

\* The set of elements of a sequence
Range(seq) == {seq[i] : i \in 1..Len(seq)}

\* All sequences over S of length at most n
SeqsUpTo(S, n) == UNION {[1..k -> S] : k \in 0..n}

---------------------------------------------------------------------------
(* The persisted aggregate and load_app_data *)

\* The keys of the defaults dict, in its order.
DefaultKeys ==
    <<"veteran_profile", "issues", "symptom_mappings", "symptom_note",
      "claims", "notes", "documents", "evidence_summary">>

Keys == Range(DefaultKeys)

EmptyDict == <<>>
EmptyList == <<>>

\* defaults[k]
defaults(k) ==
    CASE k = "veteran_profile" -> EmptyDict
      [] k = "issues" -> EmptyList
      [] k = "symptom_mappings" -> EmptyList
      [] k = "symptom_note" -> ""
      [] k = "claims" -> EmptyList
      [] k = "notes" -> ""
      [] k = "documents" -> EmptyList
      [] k = "evidence_summary" -> ""

\* A JSON value at the top level of the file.  An object carries its
\* members in data; an array or a string carries in has the keys of the
\* aggregate that occur in it (as elements, as substrings), which is all
\* that `k not in data` reads of it.
JObject(d) == [top |-> "object", data |-> d, has |-> {}]
JOther(t, h) == [top |-> t, data |-> <<>>, has |-> h]

\* The file: kind is "absent" (os.path.exists is false), "unreadable"
\* (open raises), "invalid" (json.load raises) or "json" (it parses to val).
FileAbsent == [kind |-> "absent", val |-> JObject(<<>>)]
FileUnreadable == [kind |-> "unreadable", val |-> JObject(<<>>)]
FileInvalid == [kind |-> "invalid", val |-> JObject(<<>>)]
FileJson(v) == [kind |-> "json", val |-> v]

\* `k not in data`: raises TypeError for a value that is no container.
NotInRaises(v) == v.top \in {"number", "null", "bool"}

NotIn(k, v) == IF v.top = "object" THEN k \notin DOMAIN v.data ELSE k \notin v.has

\* d with d[k] = x (a dict assignment)
DictSet(d, k, x) == [j \in (DOMAIN d) \cup {k} |-> IF j = k THEN x ELSE d[j]]

\* for k, v in defaults.items(): if k not in data: data[k] = v
\* from position i of the defaults on.  The assignment raises TypeError on
\* an array and on a string.
RECURSIVE FillDefaultsFrom(_, _)
FillDefaultsFrom(v, i) ==
    IF i > Len(DefaultKeys) THEN [raised |-> FALSE, value |-> v]
    ELSE IF NotInRaises(v) THEN [raised |-> TRUE, value |-> v]
    ELSE IF NotIn(DefaultKeys[i], v)
         THEN IF v.top = "object"
              THEN FillDefaultsFrom(
                       JObject(DictSet(v.data, DefaultKeys[i], defaults(DefaultKeys[i]))),
                       i + 1)
              ELSE [raised |-> TRUE, value |-> v]
         ELSE FillDefaultsFrom(v, i + 1)

\* The same loop with a stray break after the first key it fills.
RECURSIVE FillFirstDefaultFrom(_, _)
FillFirstDefaultFrom(v, i) ==
    IF i > Len(DefaultKeys) THEN [raised |-> FALSE, value |-> v]
    ELSE IF NotInRaises(v) THEN [raised |-> TRUE, value |-> v]
    ELSE IF NotIn(DefaultKeys[i], v)
         THEN IF v.top = "object"
              THEN [raised |-> FALSE,
                    value |-> JObject(DictSet(v.data, DefaultKeys[i], defaults(DefaultKeys[i])))]
              ELSE [raised |-> TRUE, value |-> v]
         ELSE FillFirstDefaultFrom(v, i + 1)

merge_defaults_break(v) == FillFirstDefaultFrom(v, 1)

\* The default-merge step of load_app_data.
merge_defaults(v) == FillDefaultsFrom(v, 1)

\* The first part of load_app_data: the value read, {} on any failure.
read_data_file(file) == IF file.kind = "json" THEN file.val ELSE JObject(<<>>)

\* load_app_data(): [raised, value]
load_app_data(file) == merge_defaults(read_data_file(file))

---------------------------------------------------------------------------
(* Values a stored aggregate may hold *)

ProfileFields ==
    {"full_name", "branch", "service_dates", "deployment_locations",
     "mos_duties", "other_notes"}

\* A stored value other than the default, for each key.
SampleValue(k) ==
    CASE k = "veteran_profile" -> [branch |-> "Army"]
      [] k = "issues" -> <<[label |-> "PTSD", details |-> ""]>>
      [] k = "symptom_mappings" -> <<>>
      [] k = "symptom_note" -> "ringing"
      [] k = "claims" ->
            <<[id |-> "claim_1_7", title |-> "PTSD", body |-> "I served.",
               created_at |-> "7Z"]>>
      [] k = "notes" -> "n"
      [] k = "documents" ->
            <<[id |-> "a.txt:2", name |-> "a.txt", mime |-> "text/plain", size |-> 2,
               uploaded_at |-> "3Z", text |-> "hi", notes |-> ""]>>
      [] k = "evidence_summary" -> "Summary"

\* JSON objects the file may hold: any subset of the keys, each with its
\* default or with another value.
StoredObjects ==
    UNION {{[k \in K |-> IF k \in S THEN SampleValue(k) ELSE defaults(k)] : S \in SUBSET K}
           : K \in SUBSET Keys}

\* Contents of the file: nothing, unreadable, not JSON, a JSON object, or
\* JSON of another type.
StorageInputs ==
    {FileAbsent, FileUnreadable, FileInvalid}
    \cup {FileJson(JObject(d)) : d \in StoredObjects}
    \cup {FileJson(JOther(t, h)) : t \in {"array", "string"},
                                   h \in {{}, {"issues", "notes"}, Keys}}
    \cup {FileJson(JOther(t, {})) : t \in {"number", "null", "bool"}}

\* The aggregate with every key at its default.
EmptyAggregate == [k \in Keys |-> defaults(k)]

---------------------------------------------------------------------------
(* SpecLoad: load_app_data on every content of the file, then the          *)
(* default-merge step once more on what it returned.                       *)

NoSessions == <<>>

InitLoad ==
    /\ storage \in StorageInputs
    /\ pc = "start"
    /\ out = <<>>
    /\ arg = <<>>
    /\ sess = NoSessions
    /\ now = 0
    /\ runs = 0

LoadStep ==
    /\ pc = "start"
    /\ out' = load_app_data(storage)
    /\ pc' = "loaded"
    /\ UNCHANGED <<storage, sess, now, runs, arg>>

MergeAgainStep ==
    /\ pc = "loaded"
    /\ ~out.raised
    /\ out' = [once |-> out, twice |-> merge_defaults(out.value)]
    /\ pc' = "merged"
    /\ UNCHANGED <<storage, sess, now, runs, arg>>

NextLoad == LoadStep \/ MergeAgainStep

SpecLoad == InitLoad /\ [][NextLoad]_vars

\* C1: default-filling is idempotent: applying the default-merge step of
\* load_app_data to its own result neither raises nor changes anything.
C1_MergeIdempotent ==
    pc = "merged" => /\ ~out.twice.raised
                     /\ out.twice.value = out.once.value

\* An aggregate that lacked keys and held values of its own was merged twice.
C1_Witness ==
    /\ pc = "merged"
    /\ storage.kind = "json"
    /\ storage.val.top = "object"
    /\ DOMAIN storage.val.data = {"issues", "notes"}
    /\ storage.val.data["issues"] # defaults("issues")
    /\ out.once.value.data # storage.val.data

\* C2: whatever load_app_data returns holds every top-level key; a key
\* absent from the file has its default, a key present keeps its stored
\* value.
C2_LoadFillsEveryKey ==
    (pc = "loaded" /\ ~out.raised) =>
        /\ out.value.top = "object"
        /\ DOMAIN out.value.data = Keys
        /\ \A k \in Keys :
              IF storage.kind = "json" /\ storage.val.top = "object"
                 /\ k \in DOMAIN storage.val.data
              THEN out.value.data[k] = storage.val.data[k]
              ELSE out.value.data[k] = defaults(k)

\* C3: load_app_data never raises, and returns the empty aggregate with
\* every default whenever the file is absent, unreadable, not JSON, or
\* JSON that is no object.
C3_LoadNeverRaises ==
    pc = "loaded" =>
        /\ ~out.raised
        /\ (storage.kind # "json" \/ storage.val.top # "object")
              => out.value = JObject(EmptyAggregate)

---------------------------------------------------------------------------
(* The table-style symptom mapper (src/unnamed/part_000) *)

\* set(line.strip()) <= {"|", "-", " "}
IsSeparatorLine(line) ==
    LET t == Strip(line)
    IN \A i \in 1..Len(t) : Ch(t, i) \in {"|", "-", " "}

\* "Condition" in line and "ICD" in line
IsHeaderLine(line) == Contains(line, "Condition") /\ Contains(line, "ICD")

\* "Condition" in line or "ICD" in line
IsHeaderLineOr(line) == Contains(line, "Condition") \/ Contains(line, "ICD")

\* [p.strip() for p in line.split("|") if p.strip()]
RECURSIVE StripNonEmpty(_)
StripNonEmpty(cells) ==
    IF Len(cells) = 0 THEN <<>>
    ELSE (IF Strip(cells[1]) # "" THEN <<Strip(cells[1])>> ELSE <<>>)
         \o StripNonEmpty(Tail(cells))

LineParts(line) == StripNonEmpty(Split(line, "|"))

\* The loop with `or` in place of `and` in the header test.
RECURSIVE RowsOfLinesHeaderOr(_)
RowsOfLinesHeaderOr(lines) ==
    IF Len(lines) = 0 THEN <<>>
    ELSE LET line == lines[1]
             rest == RowsOfLinesHeaderOr(Tail(lines))
         IN IF Strip(line) = "" THEN rest
            ELSE IF IsHeaderLineOr(line) THEN rest
            ELSE IF IsSeparatorLine(line) THEN rest
            ELSE IF Len(LineParts(line)) = 2 THEN <<LineParts(line)>> \o rest
            ELSE rest

\* for line in lines: ... data.append(parts)
RECURSIVE RowsOfLines(_)
RowsOfLines(lines) ==
    IF Len(lines) = 0 THEN <<>>
    ELSE LET line == lines[1]
             rest == RowsOfLines(Tail(lines))
         IN IF Strip(line) = "" THEN rest
            ELSE IF IsHeaderLine(line) THEN rest
            ELSE IF IsSeparatorLine(line) THEN rest
            ELSE IF Len(LineParts(line)) = 2 THEN <<LineParts(line)>> \o rest
            ELSE rest

table_rows_header_or(content) == RowsOfLinesHeaderOr(Split(Strip(content), "\n"))

\* map_symptoms_to_conditions from the response's content on: the rows
\* kept by the loop over content.strip().split("\n").
table_rows(content) == RowsOfLines(Split(Strip(content), "\n"))

\* What map_symptoms_to_conditions returns for a response: the frame of
\* rows, or the one-line message frame when no row was kept.
map_symptoms_to_conditions(content) ==
    LET data == table_rows(content)
    IN IF data = <<>>
       THEN [frame |-> "Message", rows |-> <<>>]
       ELSE [frame |-> "Condition,ICD-10 Code", rows |-> data]

\* The same loop in the single-page variant (its map_symptoms).
RECURSIVE mvp1_rows_of_lines(_)
mvp1_rows_of_lines(lines) ==
    IF Len(lines) = 0 THEN <<>>
    ELSE LET line == lines[1]
             rest == mvp1_rows_of_lines(Tail(lines))
         IN IF Strip(line) = "" THEN rest
            ELSE IF Contains(line, "Condition") /\ Contains(line, "ICD") THEN rest
            ELSE IF IsSeparatorLine(line) THEN rest
            ELSE IF Len(LineParts(line)) = 2 THEN <<LineParts(line)>> \o rest
            ELSE rest

mvp1_map_symptoms(content) ==
    LET data == mvp1_rows_of_lines(Split(Strip(content), "\n"))
    IN IF data = <<>>
       THEN [frame |-> "Message", rows |-> <<>>]
       ELSE [frame |-> "Condition,ICD-10 Code", rows |-> data]

---------------------------------------------------------------------------
(* SpecTable: the table-style parser on responses assembled from lines of  *)
(* known kind.                                                             *)

MaxTableLines == 3

\* Lines a response may hold, each with what it is and, for a data row,
\* its two cells.
TableLineMenu ==
    {[text |-> "", kind |-> "blank", row |-> <<>>],
     [text |-> "  ", kind |-> "blank", row |-> <<>>],
     [text |-> "Condition | ICD-10 Code", kind |-> "header", row |-> <<>>],
     [text |-> "| Chronic Condition | ICD |", kind |-> "header", row |-> <<>>],
     [text |-> "--- | ---", kind |-> "separator", row |-> <<>>],
     [text |-> "|-|-|", kind |-> "separator", row |-> <<>>],
     [text |-> "Tinnitus | H93.1", kind |-> "row", row |-> <<"Tinnitus", "H93.1">>],
     [text |-> "| PTSD |F43.10 | ", kind |-> "row", row |-> <<"PTSD", "F43.10">>],
     [text |-> "Condition\t|\tJ45", kind |-> "row", row |-> <<"Condition", "J45">>],
     [text |-> "badrow", kind |-> "other", row |-> <<>>],
     [text |-> "Knee | M25.5 | left", kind |-> "other", row |-> <<>>]}

TableExampleLines ==
    <<[text |-> "Condition | ICD-10 Code", kind |-> "header", row |-> <<>>],
      [text |-> "--- | ---", kind |-> "separator", row |-> <<>>],
      [text |-> "Tinnitus | H93.1", kind |-> "row", row |-> <<"Tinnitus", "H93.1">>],
      [text |-> "badrow", kind |-> "other", row |-> <<>>]>>

TableExampleText == "Condition | ICD-10 Code\n--- | ---\nTinnitus | H93.1\nbadrow\n"

TableText(lines, ending) == Join("\n", [i \in 1..Len(lines) |-> lines[i].text]) \o ending

TableInputs ==
    {[lines |-> ls, text |-> TableText(ls, e)] :
        ls \in SeqsUpTo(TableLineMenu, MaxTableLines) \cup {TableExampleLines},
        e \in {"", "\n"}}

InitTable ==
    /\ arg \in TableInputs
    /\ pc = "start"
    /\ out = <<>>
    /\ storage = FileAbsent
    /\ sess = NoSessions
    /\ now = 0
    /\ runs = 0

ParseTableStep ==
    /\ pc = "start"
    /\ out' = [full |-> map_symptoms_to_conditions(arg.text),
               mvp1 |-> mvp1_map_symptoms(arg.text)]
    /\ pc' = "parsed"
    /\ UNCHANGED <<storage, sess, now, runs, arg>>

NextTable == ParseTableStep

SpecTable == InitTable /\ [][NextTable]_vars

\* The rows of the lines of kind "row", in order.
RECURSIVE ExpectedRows(_)
ExpectedRows(lines) ==
    IF Len(lines) = 0 THEN <<>>
    ELSE (IF lines[1].kind = "row" THEN <<lines[1].row>> ELSE <<>>)
         \o ExpectedRows(Tail(lines))

---------------------------------------------------------------------------
(* JSON values and json.loads *)

\* A JSON value: its type t, the text s of a string, number or literal,
\* the items of an array, the members flds of an object.
JNull == [t |-> "null", s |-> "null", items |-> <<>>, flds |-> <<>>]
JBool(b) == [t |-> "bool", s |-> IF b THEN "true" ELSE "false", items |-> <<>>, flds |-> <<>>]
JNum(digits) == [t |-> "num", s |-> digits, items |-> <<>>, flds |-> <<>>]
JStr(x) == [t |-> "str", s |-> x, items |-> <<>>, flds |-> <<>>]
JArr(xs) == [t |-> "arr", s |-> "", items |-> xs, flds |-> <<>>]
JObj(f) == [t |-> "obj", s |-> "", items |-> <<>>, flds |-> f]

JsonWhitespace == {" ", "\t", "\n", "\r"}
JsonDigits == {"0", "1", "2", "3", "4", "5", "6", "7", "8", "9"}

\* A failed parse.
JFail == [ok |-> FALSE, val |-> JNull, next |-> 0]

RECURSIVE SkipWs(_, _)
SkipWs(s, i) ==
    IF i <= Len(s) /\ Ch(s, i) \in JsonWhitespace THEN SkipWs(s, i + 1) ELSE i

\* The position of the quote that closes a string opened before i, or 0:
\* a control character or a backslash ends the scan (escapes are not
\* modelled: such a text counts as invalid).
RECURSIVE ClosingQuote(_, _)
ClosingQuote(s, i) ==
    IF i > Len(s) THEN 0
    ELSE IF Ch(s, i) = "\"" THEN i
    ELSE IF Ch(s, i) \in {"\n", "\t", "\r", "\\"} THEN 0
    ELSE ClosingQuote(s, i + 1)

\* The position after the digits that start at i.
RECURSIVE DigitsEnd(_, _)
DigitsEnd(s, i) ==
    IF i <= Len(s) /\ Ch(s, i) \in JsonDigits THEN DigitsEnd(s, i + 1) ELSE i

RECURSIVE ParseValue(_, _)
RECURSIVE ParseElements(_, _, _)
RECURSIVE ParseMembers(_, _, _)

\* The elements of an array after "[" or after a ",": acc holds those read.
ParseElements(s, i, acc) ==
    LET v == ParseValue(s, SkipWs(s, i))
    IN IF ~v.ok THEN JFail
       ELSE LET j == SkipWs(s, v.next)
            IN IF j > Len(s) THEN JFail
               ELSE IF Ch(s, j) = "]"
                    THEN [ok |-> TRUE, val |-> JArr(Append(acc, v.val)), next |-> j + 1]
               ELSE IF Ch(s, j) = ","
                    THEN ParseElements(s, j + 1, Append(acc, v.val))
               ELSE JFail

\* The members of an object after "{" or after a ",": acc holds those read
\* (a repeated key keeps its last value).
ParseMembers(s, i, acc) ==
    LET k == SkipWs(s, i)
    IN IF k > Len(s) \/ Ch(s, k) # "\"" THEN JFail
       ELSE LET q == ClosingQuote(s, k + 1)
            IN IF q = 0 THEN JFail
               ELSE LET c == SkipWs(s, q + 1)
                    IN IF c > Len(s) \/ Ch(s, c) # ":" THEN JFail
                       ELSE LET v == ParseValue(s, SkipWs(s, c + 1))
                            IN IF ~v.ok THEN JFail
                               ELSE LET j == SkipWs(s, v.next)
                                        acc2 == DictSet(acc, SubSeq(s, k + 1, q - 1), v.val)
                                    IN IF j > Len(s) THEN JFail
                                       ELSE IF Ch(s, j) = "}"
                                            THEN [ok |-> TRUE, val |-> JObj(acc2), next |-> j + 1]
                                       ELSE IF Ch(s, j) = ","
                                            THEN ParseMembers(s, j + 1, acc2)
                                       ELSE JFail

\* One JSON value starting at position i (no whitespace before it).
ParseValue(s, i) ==
    IF i > Len(s) THEN JFail
    ELSE LET c == Ch(s, i)
         IN IF c = "\""
            THEN LET q == ClosingQuote(s, i + 1)
                 IN IF q = 0 THEN JFail
                    ELSE [ok |-> TRUE, val |-> JStr(SubSeq(s, i + 1, q - 1)), next |-> q + 1]
            ELSE IF c = "["
            THEN LET j == SkipWs(s, i + 1)
                 IN IF j <= Len(s) /\ Ch(s, j) = "]"
                    THEN [ok |-> TRUE, val |-> JArr(<<>>), next |-> j + 1]
                    ELSE ParseElements(s, i + 1, <<>>)
            ELSE IF c = "{"
            THEN LET j == SkipWs(s, i + 1)
                 IN IF j <= Len(s) /\ Ch(s, j) = "}"
                    THEN [ok |-> TRUE, val |-> JObj(<<>>), next |-> j + 1]
                    ELSE ParseMembers(s, i + 1, <<>>)
            ELSE IF c \in JsonDigits
            THEN LET e == DigitsEnd(s, i)
                 IN IF c = "0" /\ e > i + 1
                    THEN [ok |-> TRUE, val |-> JNum("0"), next |-> i + 1]
                    ELSE [ok |-> TRUE, val |-> JNum(SubSeq(s, i, e - 1)), next |-> e]
            ELSE IF i + 3 <= Len(s) /\ SubSeq(s, i, i + 3) = "true"
            THEN [ok |-> TRUE, val |-> JBool(TRUE), next |-> i + 4]
            ELSE IF i + 4 <= Len(s) /\ SubSeq(s, i, i + 4) = "false"
            THEN [ok |-> TRUE, val |-> JBool(FALSE), next |-> i + 5]
            ELSE IF i + 3 <= Len(s) /\ SubSeq(s, i, i + 3) = "null"
            THEN [ok |-> TRUE, val |-> JNull, next |-> i + 4]
            ELSE JFail

\* json.loads(s): [ok, val]; ok is FALSE where json.loads raises.
json_loads(s) ==
    LET v == ParseValue(s, SkipWs(s, 1))
    IN IF v.ok /\ SkipWs(s, v.next) > Len(s)
       THEN [ok |-> TRUE, val |-> v.val]
       ELSE [ok |-> FALSE, val |-> JNull]

---------------------------------------------------------------------------
(* The generation gateway and map_symptoms *)

\* A response of the gateway: ok is FALSE when the call raises (network,
\* authentication, rate limit, no content), else content is the text of
\* the first choice.
GatewayFailure == [ok |-> FALSE, content |-> ""]
GatewayReply(text) == [ok |-> TRUE, content |-> text]

\* call_gpt: the stripped content, "" when the call raised.
call_gpt(resp) == IF resp.ok THEN Strip(resp.content) ELSE ""

\* map_symptoms with `isinstance(data, (list, dict))`: an object is kept
\* as a one-element result.
map_symptoms_any_container(resp) ==
    LET raw == call_gpt(resp)
        data == json_loads(raw)
    IN [parsed |-> IF data.ok /\ data.val.t = "arr" THEN data.val.items
                   ELSE IF data.ok /\ data.val.t = "obj" THEN <<data.val>>
                   ELSE <<>>,
        raw |-> raw]

\* map_symptoms from the gateway's response on: (parsed, raw).
map_symptoms(resp) ==
    LET raw == call_gpt(resp)
        data == json_loads(raw)
    IN [parsed |-> IF data.ok /\ data.val.t = "arr" THEN data.val.items ELSE <<>>,
        raw |-> raw]

---------------------------------------------------------------------------
(* SpecParse: map_symptoms on completions written from known JSON values,  *)
(* as they are or damaged.                                                 *)

MaxJsonItems == 2

\* The order in which the members of an object are written.
MemberOrder == <<"condition", "icd10", "body_system", "va_rating_hint", "rationale">>

RECURSIVE JsonText(_, _)
RECURSIVE JsonItemsText(_, _)
RECURSIVE JsonMembersText(_, _, _)

\* The text of a JSON value; gap is written after "," and ":".
JsonText(v, gap) ==
    CASE v.t = "str" -> "\"" \o v.s \o "\""
      [] v.t = "arr" -> "[" \o JsonItemsText(v.items, gap) \o "]"
      [] v.t = "obj" -> "{" \o JsonMembersText(v.flds, gap, 1) \o "}"
      [] OTHER -> v.s

JsonItemsText(xs, gap) ==
    IF Len(xs) = 0 THEN ""
    ELSE IF Len(xs) = 1 THEN JsonText(xs[1], gap)
    ELSE JsonText(xs[1], gap) \o "," \o gap \o JsonItemsText(Tail(xs), gap)

JsonMembersText(f, gap, i) ==
    IF i > Len(MemberOrder) THEN ""
    ELSE IF MemberOrder[i] \notin DOMAIN f THEN JsonMembersText(f, gap, i + 1)
    ELSE LET rest == JsonMembersText(f, gap, i + 1)
         IN "\"" \o MemberOrder[i] \o "\":" \o gap \o JsonText(f[MemberOrder[i]], gap)
            \o (IF rest = "" THEN "" ELSE "," \o gap \o rest)

\* Items a completion's array may hold.
JsonItemMenu ==
    {JObj([condition |-> JStr("Tinnitus"), icd10 |-> JStr("H93.1")]),
     JObj([condition |-> JStr("PTSD"), rationale |-> JNull]),
     JObj(<<>>),
     JStr("asthma"),
     JNum("7"),
     JArr(<<JNum("1")>>)}

\* Values a completion may spell: arrays of the items, and values that are
\* no array.
JsonValueMenu ==
    {JArr(xs) : xs \in SeqsUpTo(JsonItemMenu, MaxJsonItems)}
    \cup {JObj([condition |-> JStr("Tinnitus")]), JObj(<<>>), JStr("none"),
          JNum("0"), JBool(TRUE), JNull}

\* How the completion spells the value: valid spellings keep it JSON,
\* the others do not.
ValidSpellings == {"compact", "spaced", "padded"}
InvalidSpellings == {"prose", "fenced", "cut", "twice"}

Spell(v, how) ==
    CASE how = "compact" -> JsonText(v, "")
      [] how = "spaced" -> JsonText(v, " ")
      [] how = "padded" -> "\n " \o JsonText(v, "\n  ") \o " \n"
      [] how = "prose" -> "Here is the JSON: " \o JsonText(v, " ")
      [] how = "fenced" -> "~~~json\n" \o JsonText(v, " ") \o "\n~~~"
      [] how = "cut" -> LET t == JsonText(v, " ") IN SubSeq(t, 1, Len(t) - 1)
      [] how = "twice" -> JsonText(v, "") \o " " \o JsonText(v, "")

ParseInputs ==
    {[value |-> v, how |-> h, resp |-> GatewayReply(Spell(v, h))] :
        v \in JsonValueMenu, h \in ValidSpellings \cup InvalidSpellings}
    \cup {[value |-> JNull, how |-> "failure", resp |-> GatewayFailure],
          [value |-> JNull, how |-> "empty", resp |-> GatewayReply("")]}

InitParse ==
    /\ arg \in ParseInputs
    /\ pc = "start"
    /\ out = <<>>
    /\ storage = FileAbsent
    /\ sess = NoSessions
    /\ now = 0
    /\ runs = 0

MapSymptomsStep ==
    /\ pc = "start"
    /\ out' = map_symptoms(arg.resp)
    /\ pc' = "mapped"
    /\ UNCHANGED <<storage, sess, now, runs, arg>>

NextParse == MapSymptomsStep

SpecParse == InitParse /\ [][NextParse]_vars

\* C5: a completion that is a valid JSON array gives that array, unchanged,
\* as the structured result; a completion that is not valid JSON, or valid
\* JSON that is no array, gives the empty list; the completion text (as
\* call_gpt returns it) comes back alongside in both cases.
C5_MapSymptomsParse ==
    pc = "mapped" =>
        /\ (arg.how \in ValidSpellings /\ arg.value.t = "arr")
              => out.parsed = arg.value.items
        /\ (arg.how \notin ValidSpellings \/ arg.value.t # "arr")
              => out.parsed = <<>>
        /\ out.raw = Strip(arg.resp.content)

\* A padded array of two records was parsed to those two records.
C5_Witness ==
    /\ pc = "mapped"
    /\ arg.how = "padded"
    /\ arg.value.t = "arr"
    /\ Len(arg.value.items) = 2
    /\ arg.value.items[1] = JObj([condition |-> JStr("Tinnitus"), icd10 |-> JStr("H93.1")])
    /\ out.parsed = arg.value.items

---------------------------------------------------------------------------
(* The evidence-summary prompt (main, "Build or refresh evidence summary") *)

\* big_blob[:12000]
BlobLimit == 12000

\* One document of app_data["documents"], as the upload writes it.
\* doc_id = f"{name}:{size}"
doc_id(name, size) == name \o ":" \o Digits(size)

Document(name, mime, size, at, text) ==
    [id |-> doc_id(name, size), name |-> name, mime |-> mime, size |-> size,
     uploaded_at |-> at, text |-> text, notes |-> ""]

\* joined_texts: an entry "name:\ntext" for every document with text.
RECURSIVE JoinedTexts(_)
JoinedTexts(docs) ==
    IF Len(docs) = 0 THEN <<>>
    ELSE (IF docs[1].text # "" THEN <<docs[1].name \o ":\n" \o docs[1].text>> ELSE <<>>)
         \o JoinedTexts(Tail(docs))

\* The blob cut one character late.
evidence_blob_off_by_one(docs) == Prefix(Join("\n\n", JoinedTexts(docs)), BlobLimit + 1)

\* big_blob: the entries joined by blank lines, cut to the limit.
evidence_blob(docs) == Prefix(Join("\n\n", JoinedTexts(docs)), BlobLimit)

\* user_prompt of the summary request
evidence_user_prompt(docs) ==
    "Summarize the following records for use in a VA claim. Do not give legal advice.\n\n"
    \o evidence_blob(docs)

---------------------------------------------------------------------------
(* SpecBlob: the evidence blob of document sequences, short and long.      *)

MaxBlobDocs == 3

BlobTexts == {"", "hi", Rep("x", 7000), Rep("y", 12001), Rep("z", 11993)}

BlobDocMenu ==
    {Document(n, "text/plain", Len(t), "1Z", t) : n \in {"a.txt", "b.txt"}, t \in BlobTexts}

InitBlob ==
    /\ arg \in SeqsUpTo(BlobDocMenu, MaxBlobDocs)
    /\ pc = "start"
    /\ out = <<>>
    /\ storage = FileAbsent
    /\ sess = NoSessions
    /\ now = 0
    /\ runs = 0

BuildBlobStep ==
    /\ pc = "start"
    /\ out' = [blob |-> evidence_blob(arg), prompt |-> evidence_user_prompt(arg)]
    /\ pc' = "built"
    /\ UNCHANGED <<storage, sess, now, runs, arg>>

NextBlob == BuildBlobStep

SpecBlob == InitBlob /\ [][NextBlob]_vars

\* The in-order concatenation: every document with text gives "name:\ntext",
\* a blank line between two of them.
RECURSIVE Concatenation(_, _)
Concatenation(docs, first) ==
    IF Len(docs) = 0 THEN ""
    ELSE IF docs[1].text = "" THEN Concatenation(Tail(docs), first)
    ELSE (IF first THEN "" ELSE "\n\n") \o docs[1].name \o ":\n" \o docs[1].text
         \o Concatenation(Tail(docs), FALSE)

\* The documents with text
WithText(docs) == SelectSeq(docs, LAMBDA d : d.text # "")

\* C7 as stated: when the concatenation exceeds 12,000 characters the blob
\* has exactly 12,000 and begins with the first document's text; the blob
\* never exceeds 12,000 characters and is a prefix of the concatenation.
C7_BlobBeginsWithFirstText ==
    (pc = "built" /\ Len(arg) > 0) =>
        /\ Len(Concatenation(arg, TRUE)) > 12000
              => /\ Len(out.blob) = 12000
                 /\ StartsWith(out.blob, arg[1].text)
        /\ Len(out.blob) <= 12000
        /\ StartsWith(Concatenation(arg, TRUE), out.blob)

\* C7 (amended): when the concatenation exceeds 12,000 characters the blob
\* has exactly 12,000 and begins with the entry of the first document that
\* has text: its name, ":", a line break, then its text, as far as 12,000
\* characters reach; the blob never exceeds 12,000 characters, is a prefix
\* of the concatenation, and is embedded as it is at the end of the prompt.
C7_BlobTruncated ==
    pc = "built" =>
        /\ Len(Concatenation(arg, TRUE)) > 12000
              => /\ Len(out.blob) = 12000
                 /\ LET d == WithText(arg)[1]
                        entry == d.name \o ":\n" \o d.text
                    IN IF Len(entry) <= 12000
                       THEN StartsWith(out.blob, entry)
                       ELSE out.blob = SubSeq(entry, 1, 12000)
        /\ Len(out.blob) <= 12000
        /\ StartsWith(Concatenation(arg, TRUE), out.blob)
        /\ Len(out.prompt) >= Len(out.blob)
        /\ Suffix(out.prompt, Len(out.prompt) - Len(out.blob)) = out.blob

\* Two documents of 7,000 characters each, after one without text: the
\* blob was cut inside the second of them.
C7_Witness ==
    /\ pc = "built"
    /\ Len(arg) = 3
    /\ arg[1].text = ""
    /\ Len(arg[2].text) = 7000
    /\ Len(arg[3].text) = 7000
    /\ Len(out.blob) = 12000
    /\ Len(Concatenation(arg, TRUE)) = 14016

---------------------------------------------------------------------------
(* Reading the aggregate *)

\* d.get(k) is truthy: the key is there with a non-empty string.
Truthy(d, k) == k \in DOMAIN d /\ d[k] # ""

\* app_data.get(k, default)
Get(d, k, default) == IF k \in DOMAIN d THEN d[k] ELSE default

\* m.get(k) of a parsed mapping record: None (JNull) when absent.
MGet(m, k) == IF k \in DOMAIN m.flds THEN m.flds[k] ELSE JNull

\* m.get(k) is truthy
MTruthy(m, k) ==
    LET v == MGet(m, k)
    IN CASE v.t = "null" -> FALSE
         [] v.t = "bool" -> v.s = "true"
         [] v.t = "num" -> v.s # "0"
         [] v.t = "str" -> v.s # ""
         [] v.t = "arr" -> v.items # <<>>
         [] v.t = "obj" -> DOMAIN v.flds # {}

\* f"{v}" of a value read from a mapping record (scalars only)
PyStr(v) ==
    CASE v.t = "null" -> "None"
      [] v.t = "bool" -> (IF v.s = "true" THEN "True" ELSE "False")
      [] OTHER -> v.s

\* [f"{label}{d[k]}"] if d.get(k) else []
LabelledLine(d, k, label) == IF Truthy(d, k) THEN <<label \o d[k]>> ELSE <<>>

\* datetime.isoformat() of the clock value t
IsoFormat(t) == "T" \o Digits(t)

---------------------------------------------------------------------------
(* build_chat_context *)

\* text[:1200]
SnippetLimit == 1200

\* doc_snippets[:3]
SnippetCount == 3

\* [i.get("label") for i in issues if i.get("label")]
RECURSIVE IssueLabels(_)
IssueLabels(issues) ==
    IF Len(issues) = 0 THEN <<>>
    ELSE (IF Truthy(issues[1], "label") THEN <<issues[1].label>> ELSE <<>>)
         \o IssueLabels(Tail(issues))

\* doc_snippets: "name:\n" and the first 1,200 characters of the text of
\* every document with text
RECURSIVE DocSnippets(_)
DocSnippets(docs) ==
    IF Len(docs) = 0 THEN <<>>
    ELSE (IF Get(docs[1], "text", "") # ""
          THEN <<docs[1].name \o ":\n" \o Prefix(docs[1].text, SnippetLimit)>>
          ELSE <<>>)
         \o DocSnippets(Tail(docs))

\* seq[:n]
Take(seq, n) == IF Len(seq) <= n THEN seq ELSE SubSeq(seq, 1, n)

ChatPieces(app, snippets) ==
    LET prof == Get(app, "veteran_profile", <<>>)
        prof_bits == LabelledLine(prof, "branch", "Branch: ")
                     \o LabelledLine(prof, "service_dates", "Service dates: ")
                     \o LabelledLine(prof, "deployment_locations", "Deployments: ")
        issues_bits == IssueLabels(Get(app, "issues", <<>>))
        evidence_summary == Get(app, "evidence_summary", "")
    IN (IF prof_bits # <<>> THEN <<"Profile:\n" \o Join("\n", prof_bits)>> ELSE <<>>)
       \o (IF issues_bits # <<>>
           THEN <<"Claimed issues:\n- " \o Join("\n- ", issues_bits)>> ELSE <<>>)
       \o (IF evidence_summary # "" THEN <<"Evidence summary:\n" \o evidence_summary>> ELSE <<>>)
       \o (IF snippets # <<>>
           THEN <<"Record snippets:\n" \o Join("\n\n", snippets)>> ELSE <<>>)

\* build_chat_context with every snippet joined (no [:3]).
build_chat_context_all_snippets(app) ==
    Join("\n\n", ChatPieces(app, DocSnippets(Get(app, "documents", <<>>))))

\* build_chat_context(app_data)
build_chat_context(app) ==
    Join("\n\n", ChatPieces(app, Take(DocSnippets(Get(app, "documents", <<>>)), SnippetCount)))

---------------------------------------------------------------------------
(* SpecChat: the chat context of aggregates with up to MaxChatDocs         *)
(* documents.  The text of the document at position p is written with the  *)
(* digit p alone, which occurs nowhere else in the aggregate, so that the  *)
(* context shows which documents contributed, and how much.                *)

MaxChatDocs == 5

Marker(p) == SubSeq("123456789", p, p)

\* Lengths of document texts: none, short, just over the snippet limit.
ChatTextLengths == {0, 2, 1201}

ChatDocs(lens) ==
    [p \in 1..Len(lens) |->
        Document("doc" \o SubSeq("abcdefghi", p, p) \o ".txt", "text/plain", lens[p], "TZ",
                 Rep(Marker(p), lens[p]))]

ChatRest ==
    {[veteran_profile |-> <<>>, issues |-> <<>>, evidence_summary |-> ""],
     [veteran_profile |-> [full_name |-> "Ann Lee", branch |-> "Army", service_dates |-> "",
                           deployment_locations |-> "Gulf", mos_duties |-> "",
                           other_notes |-> ""],
      issues |-> <<[label |-> "PTSD", details |-> ""], [label |-> "knee", details |-> ""]>>,
      evidence_summary |-> "Tinnitus since service."]}

Aggregate(prof, issues, mappings, note, claims, notes, docs, summary) ==
    [veteran_profile |-> prof, issues |-> issues, symptom_mappings |-> mappings,
     symptom_note |-> note, claims |-> claims, notes |-> notes, documents |-> docs,
     evidence_summary |-> summary]

ChatInputs ==
    {Aggregate(r.veteran_profile, r.issues, <<>>, "", <<>>, "", ChatDocs(lens),
               r.evidence_summary) :
        r \in ChatRest, lens \in SeqsUpTo(ChatTextLengths, MaxChatDocs)}

InitChat ==
    /\ arg \in ChatInputs
    /\ pc = "start"
    /\ out = <<>>
    /\ storage = FileAbsent
    /\ sess = NoSessions
    /\ now = 0
    /\ runs = 0

BuildChatContextStep ==
    /\ pc = "start"
    /\ out' = build_chat_context(arg)
    /\ pc' = "built"
    /\ UNCHANGED <<storage, sess, now, runs, arg>>

NextChat == BuildChatContextStep

SpecChat == InitChat /\ [][NextChat]_vars

\* The number of occurrences of the character c in s
Count(s, c) == Cardinality({i \in 1..Len(s) : Ch(s, i) = c})

\* The positions of the documents whose text occurs in the context
Contributors(ctx, docs) == {p \in 1..Len(docs) : Contains(ctx, Marker(p))}

\* C10: however many documents the aggregate holds, at most 3 of them
\* contribute a snippet to the chat context, and a snippet holds at most
\* 1,200 characters, all of them from its document's text.
C10_ChatSnippetsBounded ==
    pc = "built" =>
        /\ Cardinality(Contributors(out, arg.documents)) <= 3
        /\ \A p \in 1..Len(arg.documents) :
              /\ Count(out, Marker(p)) <= 1200
              /\ Count(out, Marker(p)) <= Len(arg.documents[p].text)

\* Five documents, all with more than 1,200 characters of text: three
\* contributed, 1,200 characters each.
C10_Witness ==
    /\ pc = "built"
    /\ Len(arg.documents) = 5
    /\ \A p \in 1..5 : Len(arg.documents[p].text) = 1201
    /\ Cardinality(Contributors(out, arg.documents)) = 3
    /\ \A p \in Contributors(out, arg.documents) : Count(out, Marker(p)) = 1200

---------------------------------------------------------------------------
(* build_full_claim_packet *)

\* The lines of the claimed issues: "- label " and " - detail" when given
RECURSIVE PacketIssueLines(_)
PacketIssueLines(issues) ==
    IF Len(issues) = 0 THEN <<>>
    ELSE (IF Truthy(issues[1], "label")
          THEN LET detail == Get(issues[1], "details", "")
               IN <<"- " \o issues[1].label \o " "
                    \o (IF detail # "" THEN " - " \o detail ELSE "")>>
          ELSE <<>>)
         \o PacketIssueLines(Tail(issues))

\* One line for every mapping
PacketMappingLine(m) ==
    "- " \o PyStr(MGet(m, "condition")) \o " | ICD-10 " \o PyStr(MGet(m, "icd10"))
    \o " | system: " \o PyStr(MGet(m, "body_system")) \o " "
    \o "| rating hint: " \o PyStr(MGet(m, "va_rating_hint")) \o " "
    \o "| selected: "
    \o (IF "selected_for_claim" \in DOMAIN m.flds
        THEN PyStr(m.flds["selected_for_claim"]) ELSE "False")

\* The lines of one saved statement
PacketClaimLines(c) ==
    <<"", "Title: " \o Get(c, "title", "None"), "Created: " \o Get(c, "created_at", "None"),
      "", Get(c, "body", ""), "">>

RECURSIVE PacketClaimsLines(_)
PacketClaimsLines(claims) ==
    IF Len(claims) = 0 THEN <<>>
    ELSE PacketClaimLines(claims[1]) \o PacketClaimsLines(Tail(claims))

\* The evidence section written without the placeholder.
PacketEvidenceLines_no_placeholder(evidence_summary) ==
    <<"Evidence summary", "----------------", evidence_summary, "">>

\* The evidence section: the summary, or the placeholder for an empty one
PacketEvidenceLines(evidence_summary) ==
    <<"Evidence summary", "----------------",
      IF evidence_summary # "" THEN evidence_summary ELSE "[No summary prepared yet]",
      "">>

PacketLines(app, t) ==
    LET prof == Get(app, "veteran_profile", <<>>)
        issues == Get(app, "issues", <<>>)
        symptom_mappings == Get(app, "symptom_mappings", <<>>)
        claims == Get(app, "claims", <<>>)
        evidence_summary == Get(app, "evidence_summary", "")
    IN <<"VA ClaimMate Claim Packet", "Generated: " \o IsoFormat(t) \o "Z", "">>
       \o <<"Veteran profile", "----------------">>
       \o LabelledLine(prof, "full_name", "Name: ")
       \o LabelledLine(prof, "branch", "Branch: ")
       \o LabelledLine(prof, "service_dates", "Service dates: ")
       \o LabelledLine(prof, "deployment_locations", "Deployments: ")
       \o LabelledLine(prof, "mos_duties", "Duties / MOS: ")
       \o LabelledLine(prof, "other_notes", "Additional notes: ")
       \o <<"">>
       \o <<"Claimed issues", "-------------">>
       \o PacketIssueLines(issues)
       \o <<"">>
       \o <<"Symptom to condition mappings", "-----------------------------">>
       \o [i \in 1..Len(symptom_mappings) |-> PacketMappingLine(symptom_mappings[i])]
       \o <<"">>
       \o PacketEvidenceLines(evidence_summary)
       \o <<"Saved personal statements", "-------------------------">>
       \o PacketClaimsLines(claims)

\* m.setdefault("selected_for_claim", False) on every mapping
WithSelectedDefault(app) ==
    [app EXCEPT !["symptom_mappings"] =
        [i \in 1..Len(@) |->
            IF "selected_for_claim" \in DOMAIN @[i].flds THEN @[i]
            ELSE JObj(DictSet(@[i].flds, "selected_for_claim", JBool(FALSE)))]]

\* The export writing the default of the selected flag into the mappings.
build_full_claim_packet_setdefault(app, t) ==
    [text |-> Join("\n", PacketLines(app, t)), app_data |-> WithSelectedDefault(app)]

\* build_full_claim_packet(app_data) at clock value t: the text returned
\* and app_data as the call leaves it.
build_full_claim_packet(app, t) ==
    [text |-> Join("\n", PacketLines(app, t)), app_data |-> app]

---------------------------------------------------------------------------
(* SpecPacket: successive exports of one aggregate while the clock runs.   *)

MaxExports == 2
MaxTicks == 2

PacketProfiles ==
    {<<>>,
     [full_name |-> "", branch |-> "", service_dates |-> "", deployment_locations |-> "",
      mos_duties |-> "", other_notes |-> ""],
     [full_name |-> "Ann Lee", branch |-> "Army", service_dates |-> "",
      deployment_locations |-> "", mos_duties |-> "",
      other_notes |-> "See below\nClaimed issues"]}

PacketIssues ==
    {<<>>,
     <<[label |-> "PTSD", details |-> ""]>>,
     <<[label |-> "knee", details |-> "left"], [label |-> "", details |-> ""]>>}

PacketMappings ==
    {<<>>,
     <<JObj([condition |-> JStr("Tinnitus"), icd10 |-> JStr("H93.1")])>>,
     <<JObj([condition |-> JStr("Tinnitus"), icd10 |-> JStr("H93.1"),
             body_system |-> JStr("ear"), va_rating_hint |-> JStr("10"),
             rationale |-> JStr("noise"), selected_for_claim |-> JBool(TRUE)]),
       JObj([condition |-> JStr("PTSD"), selected_for_claim |-> JBool(FALSE)])>>}

PacketSummaries ==
    {"", "Tinnitus since 1991.", "Evidence summary\n----------------\nTinnitus since 1991."}

PacketClaims ==
    {<<>>,
     <<[id |-> "claim_1_5", title |-> "Tinnitus", body |-> "My ears ring.",
        created_at |-> "T5Z"]>>,
     <<[id |-> "claim_1_5", title |-> "Tinnitus", body |-> "My ears ring.",
        created_at |-> "T5Z"],
       [id |-> "claim_2_6", title |-> "PTSD",
        body |-> "Nightmares.\n\nSaved personal statements\nsee above", created_at |-> "T6Z"]>>}

PacketInputs ==
    {Aggregate(p, i, m, "", c, "", <<>>, s) :
        p \in PacketProfiles, i \in PacketIssues, m \in PacketMappings,
        c \in PacketClaims, s \in PacketSummaries}

InitPacket ==
    /\ arg \in PacketInputs
    /\ pc = "export"
    /\ out = <<>>
    /\ storage = FileAbsent
    /\ sess = NoSessions
    /\ now = 0
    /\ runs = 0

\* One call of build_full_claim_packet on the aggregate as the last call
\* left it.
ExportStep ==
    /\ pc = "export"
    /\ Len(out) < MaxExports
    /\ LET r == build_full_claim_packet(arg, now)
       IN /\ out' = Append(out, [text |-> r.text, before |-> arg, at |-> now])
          /\ arg' = r.app_data
    /\ UNCHANGED <<storage, sess, now, runs, pc>>

\* Time passes between two calls.
PacketTickStep ==
    /\ pc = "export"
    /\ now < MaxTicks
    /\ now' = now + 1
    /\ UNCHANGED <<storage, sess, runs, arg, out, pc>>

NextPacket == ExportStep \/ PacketTickStep

SpecPacket == InitPacket /\ [][NextPacket]_vars

\* The lines of two texts agree everywhere but at line 2.
SameButLine2(a, b) ==
    LET la == Split(a, "\n")
        lb == Split(b, "\n")
    IN /\ Len(la) = Len(lb)
       /\ \A i \in 1..Len(la) : i # 2 => la[i] = lb[i]
       /\ StartsWith(la[2], "Generated: ")
       /\ StartsWith(lb[2], "Generated: ")

\* C8: two successive exports of the same aggregate agree on every line but
\* the "Generated:" line, and an export leaves the aggregate as it was.
C8_ExportIdempotent ==
    pc = "export" =>
        /\ \A i \in 1..Len(out) :
              out[i].before = (IF i < Len(out) THEN out[i + 1].before ELSE arg)
        /\ \A i \in 1..(Len(out) - 1) : SameButLine2(out[i].text, out[i + 1].text)

\* Two exports at different times of an aggregate with mappings, claims
\* and a profile: the texts differ (in the timestamp line only).
C8_Witness ==
    /\ pc = "export"
    /\ Len(out) = 2
    /\ out[1].at # out[2].at
    /\ out[1].text # out[2].text
    /\ Len(arg["symptom_mappings"]) = 1
    /\ Len(arg["claims"]) = 2
    /\ arg["veteran_profile"] # <<>>

\* The section headers, in the order of the packet
PacketHeaders ==
    <<"VA ClaimMate Claim Packet", "Veteran profile", "Claimed issues",
      "Symptom to condition mappings", "Evidence summary", "Saved personal statements">>

\* The number of lines equal to h
LineCount(lines, h) == Cardinality({i \in 1..Len(lines) : lines[i] = h})

\* The first position from start on of a line equal to h, 0 when none
RECURSIVE FindLine(_, _, _)
FindLine(lines, h, start) ==
    IF start > Len(lines) THEN 0
    ELSE IF lines[start] = h THEN start
    ELSE FindLine(lines, h, start + 1)

\* The headers occur as lines in their order from position start on
RECURSIVE HeadersInOrder(_, _, _)
HeadersInOrder(lines, k, start) ==
    IF k > Len(PacketHeaders) THEN TRUE
    ELSE LET p == FindLine(lines, PacketHeaders[k], start)
         IN p # 0 /\ HeadersInOrder(lines, k + 1, p + 1)

\* The text of the saved statements, in stored order
RECURSIVE StatementsText(_)
StatementsText(claims) ==
    IF Len(claims) = 0 THEN ""
    ELSE "\n\nTitle: " \o claims[1].title \o "\nCreated: " \o claims[1].created_at
         \o "\n\n" \o claims[1].body \o "\n" \o StatementsText(Tail(claims))

EndsWith(s, e) == Len(e) <= Len(s) /\ Suffix(s, Len(s) - Len(e)) = e

\* The evidence section holds the summary, or the placeholder when the
\* summary is empty, and the statements follow in stored order to the end.
EvidenceAndStatements(text, app) ==
    EndsWith(text,
             "\n\nEvidence summary\n----------------\n"
             \o (IF app["evidence_summary"] = "" THEN "[No summary prepared yet]"
                 ELSE app["evidence_summary"])
             \o "\n\nSaved personal statements\n-------------------------"
             \o StatementsText(app["claims"]))

\* The lines of a text that follow its first line
LaterLines(s) == Tail(Split(s, "\n"))

\* The lines the stored free text itself puts into the packet, apart from
\* the line a label starts: profile fields, issue labels and details,
\* statement titles and bodies, the evidence summary.
RECURSIVE FreeTextLinesOfClaims(_)
FreeTextLinesOfClaims(claims) ==
    IF Len(claims) = 0 THEN <<>>
    ELSE LaterLines(claims[1].title) \o Split(claims[1].body, "\n")
         \o FreeTextLinesOfClaims(Tail(claims))

RECURSIVE FreeTextLinesOfIssues(_)
FreeTextLinesOfIssues(issues) ==
    IF Len(issues) = 0 THEN <<>>
    ELSE LaterLines(issues[1].label \o " " \o issues[1].details)
         \o FreeTextLinesOfIssues(Tail(issues))

FreeTextLines(app) ==
    LET prof == app["veteran_profile"]
        fields == <<"full_name", "branch", "service_dates", "deployment_locations",
                    "mos_duties", "other_notes">>
        ofField(k) == IF Truthy(prof, k) THEN LaterLines(prof[k]) ELSE <<>>
    IN ofField(fields[1]) \o ofField(fields[2]) \o ofField(fields[3])
       \o ofField(fields[4]) \o ofField(fields[5]) \o ofField(fields[6])
       \o FreeTextLinesOfIssues(app["issues"])
       \o (IF app["evidence_summary"] = "" THEN <<>>
           ELSE Split(app["evidence_summary"], "\n"))
       \o FreeTextLinesOfClaims(app["claims"])

---------------------------------------------------------------------------
(* The application: runs of main in browser sessions over one data file.   *)
(* A run is started by one event in the browser: a widget edited, a button *)
(* pressed, the file list changed, or the page merely shown again.         *)

\* Uploaded files.  The bytes of a file are known by their number and by
\* what the decoders make of them.
Content(size, utf8, pdf, docx) == [size |-> size, utf8 |-> utf8, pdf |-> pdf, docx |-> docx]
Unparsable == [ok |-> FALSE, parts |-> <<>>]
Parsed(parts) == [ok |-> TRUE, parts |-> parts]
Upload(name, type, content) == [name |-> name, type |-> type, content |-> content]

DocxMime == "application/vnd.openxmlformats-officedocument.wordprocessingml.document"

\* The type of an upload that declares none (None)
NoType == "(none)"

\* The extraction with the PDF branch outside a try.
extract_text_uncaught(content, mime, name) ==
    LET m == IF mime = NoType THEN "" ELSE mime
    IN IF StartsWith(m, "text/") THEN [raised |-> FALSE, text |-> content.utf8]
       ELSE IF m = "application/pdf"
            THEN (IF content.pdf.ok
                  THEN [raised |-> FALSE, text |-> Join("\n", content.pdf.parts)]
                  ELSE [raised |-> TRUE, text |-> ""])
       ELSE IF m = DocxMime
            THEN [raised |-> FALSE,
                  text |-> IF content.docx.ok THEN Join("\n", content.docx.parts) ELSE ""]
       ELSE [raised |-> FALSE, text |-> content.utf8]

\* extract_text_from_bytes(content, mime, name): whether it raises, and the
\* text it returns.  decode(errors="ignore") gives content.utf8; a reader
\* that cannot be imported or that fails on the bytes is caught.
extract_text_outcome(content, mime, name) ==
    LET m == IF mime = NoType THEN "" ELSE mime
    IN IF StartsWith(m, "text/") THEN [raised |-> FALSE, text |-> content.utf8]
       ELSE IF m = "application/pdf"
            THEN [raised |-> FALSE,
                  text |-> IF content.pdf.ok THEN Join("\n", content.pdf.parts) ELSE ""]
       ELSE IF m = DocxMime
            THEN [raised |-> FALSE,
                  text |-> IF content.docx.ok THEN Join("\n", content.docx.parts) ELSE ""]
       ELSE [raised |-> FALSE, text |-> content.utf8]

\* The text extract_text_from_bytes(content, mime, name) returns
extract_text_from_bytes(content, mime, name) ==
    extract_text_outcome(content, mime, name).text

\* The upload loop with no document taken as existing.
existing_ids_none(documents) == <<>>

\* existing_ids = [d.get("id") for d in app_data["documents"]]
existing_ids(documents) == [i \in 1..Len(documents) |-> documents[i].id]

\* The upload loop with every new document put in front of the stored ones.
RECURSIVE process_uploads_in_front(_, _, _)
process_uploads_in_front(documents, uploads, t) ==
    IF Len(uploads) = 0 THEN documents
    ELSE IF doc_id(uploads[1].name, uploads[1].content.size)
               \in {documents[i].id : i \in 1..Len(documents)}
         THEN process_uploads_in_front(documents, Tail(uploads), t)
         ELSE process_uploads_in_front(
                  <<Document(uploads[1].name, uploads[1].type, uploads[1].content.size,
                             IsoFormat(t) \o "Z",
                             extract_text_from_bytes(uploads[1].content, uploads[1].type,
                                                     uploads[1].name))>>
                  \o documents,
                  Tail(uploads), t)

\* for up in uploads: ... app_data["documents"].append(doc_entry), unless
\* the id is that of a document already there
RECURSIVE process_uploads(_, _, _)
process_uploads(documents, uploads, t) ==
    IF Len(uploads) = 0 THEN documents
    ELSE LET up == uploads[1]
             content == up.content
             mime == up.type
             name == up.name
             size == content.size
         IN IF doc_id(name, size) \in Range(existing_ids(documents))
            THEN process_uploads(documents, Tail(uploads), t)
            ELSE process_uploads(
                     Append(documents,
                            Document(name, mime, size, IsoFormat(t) \o "Z",
                                     extract_text_from_bytes(content, mime, name))),
                     Tail(uploads), t)

\* An event in the browser.
Event(kind) ==
    [kind |-> kind, text |-> "", idx |-> 0, resp |-> GatewayFailure, files |-> <<>>,
     prof |-> <<>>, title |-> "default", focus |-> "default", pick |-> "default"]

\* new_issues with a label taken once only.
IssuesOfLinesDistinct(lines) ==
    LET keep == SelectSeq([i \in 1..Len(lines) |-> i],
                          LAMBDA i : /\ Strip(lines[i]) # ""
                                     /\ \A j \in 1..(i - 1) : Strip(lines[j]) # Strip(lines[i]))
    IN [k \in 1..Len(keep) |-> [label |-> Strip(lines[keep[k]]), details |-> ""]]

\* new_issues: a record for every non-blank line, stripped
RECURSIVE IssuesOfLines(_)
IssuesOfLines(lines) ==
    IF Len(lines) = 0 THEN <<>>
    ELSE (IF Strip(lines[1]) # "" THEN <<[label |-> Strip(lines[1]), details |-> ""]>>
          ELSE <<>>)
         \o IssuesOfLines(Tail(lines))

\* Tab 1: the profile fields and the issue list are written from the widgets.
profile_tab(app, ev) ==
    LET vp == Get(app, "veteran_profile", <<>>)
        shown == [f \in ProfileFields |-> Get(vp, f, "")]
        typed == IF ev.kind = "profile" THEN ev.prof ELSE shown
        vp2 == [k \in (DOMAIN vp) \cup ProfileFields |->
                   IF k \in ProfileFields THEN typed[k] ELSE vp[k]]
        issues == Get(app, "issues", <<>>)
        existing_labels == [i \in 1..Len(issues) |-> Get(issues[i], "label", "")]
        issues_text == IF ev.kind = "issues" THEN ev.text ELSE Join("\n", existing_labels)
    IN DictSet(DictSet(app, "veteran_profile", vp2),
               "issues", IssuesOfLines(SplitLines(issues_text)))

\* Tab 2, the note of every document is written from its widget.
document_notes(documents, ev) ==
    [i \in 1..Len(documents) |->
        [documents[i] EXCEPT !.notes =
            IF ev.kind = "doc_note" /\ ev.idx = i THEN ev.text
            ELSE Get(documents[i], "notes", "")]]

\* Tab 2, the evidence summary: the button, then the editable text.
evidence_tab(app, ev) ==
    LET current_summary == Get(app, "evidence_summary", "")
        big_blob == evidence_blob(app["documents"])
        refreshed == IF ev.kind = "summarize" /\ big_blob # ""
                     THEN call_gpt(ev.resp) ELSE current_summary
        evidence_summary_text == IF ev.kind = "evidence" THEN ev.text ELSE refreshed
    IN DictSet(app, "evidence_summary", evidence_summary_text)

\* The values of m.get(k) of the mappings for which keep holds
RECURSIVE ConditionsWhere(_, _)
ConditionsWhere(ms, needSelected) ==
    IF Len(ms) = 0 THEN <<>>
    ELSE (IF MTruthy(ms[1], "condition")
             /\ (needSelected => MTruthy(ms[1], "selected_for_claim"))
          THEN <<MGet(ms[1], "condition")>> ELSE <<>>)
         \o ConditionsWhere(Tail(ms), needSelected)

\* if mappings: app_data["symptom_mappings"] = mappings
replace_mappings(app, mappings) ==
    IF mappings # <<>> THEN DictSet(app, "symptom_mappings", mappings) ELSE app

\* Tab 3, the list of suggested conditions of the mappings ms and the
\* selection: every mapping is marked as selected or not.  raised: a
\* mapping that is no object has no get.
suggested_conditions(app, ms, ev) ==
    IF ms = <<>> THEN [app |-> app, raised |-> FALSE, shown |-> FALSE]
    ELSE IF \E i \in 1..Len(ms) : ms[i].t # "obj"
         THEN [app |-> app, raised |-> TRUE, shown |-> FALSE]
    ELSE LET all_names == ConditionsWhere(ms, FALSE)
             preselected == ConditionsWhere(ms, TRUE)
             selected == IF ev.kind # "select" THEN preselected
                         ELSE IF ev.pick = "all" THEN all_names ELSE <<>>
             marked == [i \in 1..Len(ms) |->
                          JObj(DictSet(ms[i].flds, "selected_for_claim",
                                       JBool(MGet(ms[i], "condition") \in Range(selected))))]
         IN [app |-> DictSet(app, "symptom_mappings", marked),
             raised |-> FALSE, shown |-> TRUE]

\* Tab 3, the analysis button on the aggregate with the note written
analyze_symptoms(app, ev) ==
    IF ev.kind = "analyze" /\ Strip(app["symptom_note"]) # ""
    THEN replace_mappings(app, map_symptoms(ev.resp).parsed)
    ELSE app

\* Tab 3 from the analysis button on
mapper_analysis(app, ev) == suggested_conditions(app, app["symptom_mappings"], ev)

\* Tab 3: the note, the analysis button, the selection.
mapper_tab(app, ev) ==
    mapper_analysis(
        analyze_symptoms(
            DictSet(app, "symptom_note",
                    IF ev.kind = "symptom_note" THEN ev.text ELSE Get(app, "symptom_note", "")),
            ev),
        ev)

\* build_personal_statement: what the gateway returned for the prompt
build_personal_statement(app, claim_title, focus_conditions, resp) == call_gpt(resp)

\* The text of a title the user typed
TypedTitle == "Hearing loss"

\* Tab 4: the title, the generation button, the editable statement, the
\* save button.
statement_tab(app, generated, ev, t) ==
    LET issues == Get(app, "issues", <<>>)
        symptom_mappings == Get(app, "symptom_mappings", <<>>)
        condition_names == ConditionsWhere(symptom_mappings, TRUE)
        names == [i \in 1..Len(condition_names) |-> condition_names[i].s]
        default_title == IF names # <<>> THEN Join(", ", Take(names, 3))
                         ELSE IF issues # <<>> THEN Join(", ", IssueLabels(Take(issues, 3)))
                         ELSE ""
        claim_title == IF ev.title = "typed" THEN TypedTitle ELSE default_title
        focus_conditions == IF ev.focus = "none" THEN <<>> ELSE condition_names
        generated1 == IF ev.kind = "generate" /\ Strip(claim_title) # ""
                      THEN build_personal_statement(app, claim_title, focus_conditions, ev.resp)
                      ELSE generated
        current_statement == IF ev.kind = "statement" THEN ev.text ELSE generated1
        claims == app["claims"]
        entry == [id |-> "claim_" \o Digits(Len(claims) + 1) \o "_" \o Digits(t),
                  title |-> IF claim_title # "" THEN claim_title ELSE "VA claim statement",
                  body |-> current_statement,
                  created_at |-> IsoFormat(t) \o "Z"]
    IN [app |-> IF ev.kind = "save" /\ Strip(current_statement) # ""
                THEN DictSet(app, "claims", Append(claims, entry)) ELSE app,
        generated |-> current_statement]

\* Tab 5: the saved statements with their remove buttons.  raised: two
\* statements with one id ask for two widgets with one key.
dashboard_tab(app, ev) ==
    LET claims == Get(app, "claims", <<>>)
    IN IF claims = <<>> THEN [app |-> app, raised |-> FALSE]
       ELSE IF \E i, j \in 1..Len(claims) : i # j /\ claims[i].id = claims[j].id
            THEN [app |-> app, raised |-> TRUE]
       ELSE LET remove_ids == IF ev.kind = "remove" /\ ev.idx \in 1..Len(claims)
                              THEN {claims[ev.idx].id} ELSE {}
            IN [app |-> IF remove_ids # {}
                        THEN DictSet(app, "claims",
                                     SelectSeq(claims, LAMBDA c : c.id \notin remove_ids))
                        ELSE app,
                raised |-> FALSE]

\* Tab 6: a question is answered with the chat context and both are kept.
chat_tab(app, chat_history, ev) ==
    IF ev.kind = "chat"
    THEN chat_history \o <<[role |-> "user", content |-> ev.text],
                            [role |-> "assistant", content |-> call_gpt(ev.resp)]>>
    ELSE chat_history

\* A session of the browser: st.session_state and the files held by the
\* uploader.
FreshSession ==
    [loaded |-> FALSE, app_data |-> <<>>, uploads |-> <<>>, generated |-> "",
     chat_history |-> <<>>]

\* get_state() that loads the aggregate in every run.
get_state_every_run(st, file) ==
    LET r == load_app_data(file)
    IN IF r.raised THEN [raised |-> TRUE, st |-> st]
       ELSE [raised |-> FALSE,
             st |-> [st EXCEPT !.loaded = TRUE, !.app_data = r.value.data]]

\* get_state(): the aggregate is loaded when the session has none.
get_state(st, file) ==
    IF st.loaded THEN [raised |-> FALSE, st |-> st]
    ELSE LET r == load_app_data(file)
         IN IF r.raised THEN [raised |-> TRUE, st |-> st]
            ELSE [raised |-> FALSE,
                  st |-> [st EXCEPT !.loaded = TRUE, !.app_data = r.value.data]]

\* What becomes of the file in save_app_data: written, left alone when it
\* cannot be opened, cut when the dump fails after the file was opened.
SaveOutcomes == {"written", "not_opened", "cut"}

\* A save that keeps the documents of the file that the aggregate lacks.
save_app_data_merging(data, file, outcome) ==
    CASE outcome = "written" ->
            FileJson(JObject(
                IF file.kind = "json" /\ "documents" \in DOMAIN file.val.data
                THEN [data EXCEPT !["documents"] =
                         @ \o SelectSeq(file.val.data["documents"],
                                        LAMBDA d : \A i \in 1..Len(data["documents"]) :
                                                      data["documents"][i].id # d.id)]
                ELSE data))
      [] outcome = "not_opened" -> file
      [] outcome = "cut" -> FileInvalid

\* save_app_data(data).  The aggregate holds strings, numbers, booleans,
\* lists and dicts with string keys only, which json.dump and json.load
\* give back as they were.
save_app_data(data, file, outcome) ==
    CASE outcome = "written" -> FileJson(JObject(data))
      [] outcome = "not_opened" -> file
      [] outcome = "cut" -> FileInvalid

\* persist_state()
persist_state(st, file, outcome) ==
    IF st.loaded THEN save_app_data(st.app_data, file, outcome) ELSE file

\* The events whose widget is in tabs 1 to 3 whatever the aggregate holds
EarlyEvents ==
    {"rerun", "profile", "issues", "uploads", "summarize", "evidence", "symptom_note",
     "analyze"}

\* The widget of the event was reached before tab 3 ended
ShownEarly(ev, ndocs, selection) ==
    \/ ev.kind \in EarlyEvents
    \/ (ev.kind = "doc_note" /\ ev.idx \in 1..ndocs)
    \/ (ev.kind = "select" /\ selection)

\* The position of the first saved statement whose id an earlier one has:
\* its text area is the widget that raises, behind the remove buttons of
\* the statements before it.
FirstRepeat(claims) ==
    LET repeats == {j \in 1..Len(claims) : \E i \in 1..(j - 1) : claims[i].id = claims[j].id}
    IN IF repeats = {} THEN Len(claims) + 1
       ELSE CHOOSE j \in repeats : \A k \in repeats : j <= k

\* main from tab 5 on: d is what the dashboard made of the aggregate.
main_dashboard(s0, uploads, ndocs, selection, generated, nclaims, d, ev) ==
    IF d.raised
    THEN [st |-> [s0 EXCEPT !.app_data = d.app, !.uploads = uploads,
                            !.generated = generated],
          raised |-> TRUE,
          shown |-> ShownEarly(ev, ndocs, selection)
                    \/ ev.kind \in {"generate", "statement", "save"}
                    \/ (ev.kind = "remove" /\ ev.idx \in 1..(FirstRepeat(d.app["claims"]) - 1))]
    ELSE [st |-> [s0 EXCEPT !.app_data = d.app, !.uploads = uploads,
                            !.generated = generated,
                            !.chat_history = chat_tab(d.app, s0.chat_history, ev)],
          raised |-> FALSE,
          shown |-> ShownEarly(ev, ndocs, selection)
                    \/ ev.kind \in {"generate", "statement", "save", "chat"}
                    \/ (ev.kind = "remove" /\ ev.idx \in 1..nclaims)]

\* main from tab 4 on: s is what the statement builder left.
main_statement(s0, uploads, ndocs, selection, s, ev) ==
    main_dashboard(s0, uploads, ndocs, selection, s.generated, Len(s.app["claims"]),
                   dashboard_tab(s.app, ev), ev)

\* main from tab 3 on: m is what the mapper left.
main_mapper(s0, uploads, ndocs, m, ev, t) ==
    IF m.raised
    THEN [st |-> [s0 EXCEPT !.app_data = m.app, !.uploads = uploads],
          raised |-> TRUE,
          shown |-> ShownEarly(ev, ndocs, FALSE)]
    ELSE main_statement(s0, uploads, ndocs, m.shown,
                        statement_tab(m.app, s0.generated, ev, t), ev)

\* main from the document list of tab 2 on: docs are the documents after
\* the upload loop.
main_documents(s0, uploads, app, docs, ev, t) ==
    main_mapper(s0, uploads, Len(docs),
                mapper_tab(evidence_tab(DictSet(app, "documents", document_notes(docs, ev)),
                                        ev),
                           ev),
                ev, t)

\* main from the upload loop of tab 2 on.
main_uploads(s0, uploads, app, ev, t) ==
    main_documents(s0, uploads, app, process_uploads(app["documents"], uploads, t), ev, t)

\* main after get_state.
main_tabs(s0, uploads, ev, t) ==
    main_uploads(s0, uploads, profile_tab(s0.app_data, ev), ev, t)

main_loaded(g, ev, t) ==
    IF g.raised
    THEN [st |-> g.st, raised |-> TRUE, shown |-> ev.kind = "rerun"]
    ELSE main_tabs(g.st, IF ev.kind = "uploads" THEN ev.files ELSE g.st.uploads, ev, t)

\* One run of main in the session st at clock value t.  shown: the widget
\* of the event was reached.  The aggregate of the session is changed in
\* place, so that a run that raises leaves its changes in the session and
\* does not reach persist_state.
main(st, file, ev, t) == main_loaded(get_state(st, file), ev, t)

---------------------------------------------------------------------------
(* Spec: two browser sessions over one data file.                          *)

Sessions == {1, 2}
MaxRuns == 2
MaxClock == 1

\* Two files of one name and size with different bytes, and a PDF
FileA == Upload("a.txt", "text/plain", Content(2, "hi", Unparsable, Unparsable))
FileA2 == Upload("a.txt", "text/plain", Content(2, "yo", Unparsable, Unparsable))
FileB == Upload("b.pdf", "application/pdf", Content(3, "%PD", Parsed(<<"p1", "">>), Unparsable))

UploadLists == {<<FileA>>, <<FileA2>>, <<FileA, FileA2>>, <<FileA2, FileB, FileA>>, <<>>}

ProfileEdits ==
    {[full_name |-> "Ann Lee", branch |-> "Army", service_dates |-> "",
      deployment_locations |-> "", mos_duties |-> "", other_notes |-> ""]}

MappingReplies ==
    {GatewayFailure,
     GatewayReply("[{\"condition\": \"Tinnitus\", \"icd10\": \"H93.1\"}, {\"icd10\": \"F43\"}]"),
     GatewayReply("[]"),
     GatewayReply("[\"Tinnitus\"]"),
     GatewayReply("Likely tinnitus.")}

Events ==
    {Event("rerun")}
    \cup {[Event("profile") EXCEPT !.prof = p] : p \in ProfileEdits}
    \cup {[Event("issues") EXCEPT !.text = x] : x \in {" knee \n\nPTSD\n", ""}}
    \cup {[Event("uploads") EXCEPT !.files = f] : f \in UploadLists}
    \cup {[Event("doc_note") EXCEPT !.idx = i, !.text = "see p. 2"] : i \in {1, 2}}
    \cup {[Event("summarize") EXCEPT !.resp = r] :
             r \in {GatewayFailure, GatewayReply(" Tinnitus since 1991. ")}}
    \cup {[Event("evidence") EXCEPT !.text = "Edited summary."]}
    \cup {[Event("symptom_note") EXCEPT !.text = x] : x \in {"ringing ears", "  "}}
    \cup {[Event("analyze") EXCEPT !.resp = r] : r \in MappingReplies}
    \cup {[Event("select") EXCEPT !.pick = p] : p \in {"all", "none"}}
    \cup {[Event("generate") EXCEPT !.title = ti, !.focus = f, !.resp = r] :
             ti \in {"default", "typed"}, f \in {"default", "none"},
             r \in {GatewayFailure, GatewayReply("I served.")}}
    \cup {[Event("statement") EXCEPT !.text = x] : x \in {"My ears ring.", "  "}}
    \cup {[Event("save") EXCEPT !.title = ti] : ti \in {"default", "typed"}}
    \cup {[Event("remove") EXCEPT !.idx = i] : i \in {1, 2}}
    \cup {[Event("chat") EXCEPT !.text = "Am I eligible?", !.resp = r] :
             r \in {GatewayFailure, GatewayReply("Possibly.")}}

Init ==
    /\ storage = FileAbsent
    /\ sess = [s \in Sessions |-> FreshSession]
    /\ now = 0
    /\ runs = 0
    /\ arg = <<>>
    /\ out = <<>>
    /\ pc = "main"

\* The end of a run with result r in session s: the session keeps what
\* the run made of it, and persist_state is reached unless the run raised.
RunEnds(s, r, outcome) ==
    /\ r.shown
    /\ sess' = [sess EXCEPT ![s] = r.st]
    /\ storage' = IF r.raised THEN storage ELSE persist_state(r.st, storage, outcome)

\* The script runs once in session s, from get_state to persist_state, on
\* one of the events evs.
RunOn(s, evs) ==
    /\ pc = "main"
    /\ \E ev \in evs, outcome \in SaveOutcomes :
          RunEnds(s, main(sess[s], storage, ev, now), outcome)
    /\ runs' = runs + 1
    /\ UNCHANGED <<now, arg, out, pc>>

Run(s) == runs < MaxRuns /\ RunOn(s, Events)

\* The page is opened anew: the session starts without state.
NewSession(s) ==
    /\ pc = "main"
    /\ sess[s].loaded
    /\ sess' = [sess EXCEPT ![s] = FreshSession]
    /\ UNCHANGED <<storage, now, runs, arg, out, pc>>

\* Time passes.
Tick ==
    /\ pc = "main"
    /\ now < MaxClock
    /\ now' = now + 1
    /\ UNCHANGED <<storage, sess, runs, arg, out, pc>>

Next == (\E s \in Sessions : Run(s)) \/ (\E s \in Sessions : NewSession(s)) \/ Tick

Spec == Init /\ [][Next]_vars

---------------------------------------------------------------------------
(* SpecUploads: the runs that the uploader and the document notes start,   *)
(* in two sessions, with reloads of the page in between.                   *)

MaxUploadRuns == 3

UploadEvents == {ev \in Events : ev.kind \in {"rerun", "uploads", "doc_note"}}

UploadRun(s) == runs < MaxUploadRuns /\ RunOn(s, UploadEvents)

NextUploads ==
    (\E s \in Sessions : UploadRun(s)) \/ (\E s \in Sessions : NewSession(s)) \/ Tick

SpecUploads == Init /\ [][NextUploads]_vars

\* The documents of a session, and those in the file
DocumentsOf(st) == IF st.loaded THEN st.app_data["documents"] ELSE <<>>
StoredDocuments ==
    IF storage.kind = "json" THEN storage.val.data["documents"] ELSE <<>>

DistinctIds(docs) == \A i, j \in 1..Len(docs) : i # j => docs[i].id # docs[j].id

\* The documents with the id of the upload up
WithIdOf(docs, up) == SelectSeq(docs, LAMBDA d : d.id = doc_id(up.name, up.content.size))

\* C4: no two documents of a session or of the file share an id; every
\* file held by the uploader has exactly one document with its id; and a
\* run keeps every document a session has, in its place and with its
\* text, so that of two files with one name and size the first is stored.
C4_OneDocumentPerId ==
    /\ [](/\ \A s \in Sessions :
               /\ DistinctIds(DocumentsOf(sess[s]))
               /\ \A k \in 1..Len(sess[s].uploads) :
                     Len(WithIdOf(DocumentsOf(sess[s]), sess[s].uploads[k])) = 1
          /\ DistinctIds(StoredDocuments))
    /\ [][\A s \in Sessions :
             sess[s].loaded /\ sess'[s].loaded =>
                LET before == DocumentsOf(sess[s])
                    after == DocumentsOf(sess'[s])
                IN /\ Len(before) <= Len(after)
                   /\ \A i \in 1..Len(before) :
                         after[i] = [before[i] EXCEPT !.notes = after[i].notes]]_vars

\* A session holds the second of the two files of one name and size, and
\* its only document of that id has the text of the first; the file has it
\* too.
C4_Witness ==
    \E s \in Sessions :
        /\ sess[s].loaded
        /\ sess[s].uploads = <<FileA2>>
        /\ Len(DocumentsOf(sess[s])) = 1
        /\ DocumentsOf(sess[s])[1].id = "a.txt:2"
        /\ DocumentsOf(sess[s])[1].text = "hi"
        /\ Len(StoredDocuments) = 1
        /\ StoredDocuments[1].text = "hi"

---------------------------------------------------------------------------
(* SpecGeneration: one run of main started by an AI-assisted action whose  *)
(* gateway call fails or returns nothing, in a session whose aggregate a   *)
(* run has already written.                                                *)

\* The session that holds the aggregate app
SessionWith(app, generated) ==
    [FreshSession EXCEPT !.loaded = TRUE, !.app_data = app, !.generated = generated]

\* The aggregate as a run without any event leaves it
AfterRerun(app) == main(SessionWith(app, ""), FileAbsent, Event("rerun"), 0).st.app_data

\* The gateway raised, returned an empty completion, or only white space
EmptyResponses == {GatewayFailure, GatewayReply(""), GatewayReply(" \n")}

GenerationEvents ==
    {[Event(k) EXCEPT !.resp = r, !.title = "typed", !.text = "Am I eligible?"] :
        k \in {"summarize", "analyze", "generate", "chat"}, r \in EmptyResponses}

GenerationDocuments ==
    {<<>>,
     <<Document("a.txt", "text/plain", 2, "T0Z", "hi")>>,
     <<Document("b.pdf", "application/pdf", 3, "T0Z", "")>>}

GenerationMappings ==
    {<<>>, <<JObj([condition |-> JStr("Tinnitus"), icd10 |-> JStr("H93.1")])>>}

GenerationAggregates ==
    {AfterRerun(Aggregate(p, <<>>, m, n, <<>>, "", d, e)) :
        p \in {<<>>} \cup ProfileEdits, m \in GenerationMappings, n \in {"", "ringing ears"},
        d \in GenerationDocuments, e \in {"", "Old summary."}}

InitGeneration ==
    /\ arg \in {[st |-> SessionWith(a, g), ev |-> ev] :
                   a \in GenerationAggregates, g \in {"", "Draft."}, ev \in GenerationEvents}
    /\ pc = "start"
    /\ out = <<>>
    /\ storage = FileAbsent
    /\ sess = NoSessions
    /\ now = 0
    /\ runs = 0

\* The run of main that the action starts.
GenerationStep ==
    /\ pc = "start"
    /\ out' = main(arg.st, storage, arg.ev, now)
    /\ pc' = "done"
    /\ UNCHANGED <<storage, sess, now, runs, arg>>

NextGeneration == GenerationStep

SpecGeneration == InitGeneration /\ [][NextGeneration]_vars

\* C11: after an AI-assisted action whose gateway call failed or returned
\* nothing, every field of the aggregate has the value it had before.
C11_FailureLeavesAggregate ==
    pc = "done" => out.st.app_data = arg.st.app_data

---------------------------------------------------------------------------
(* SpecMapping: one run of main started by the analysis button, with a     *)
(* completion that is a JSON array of objects, in a session that has a     *)
(* symptom note and may have mappings of an earlier call.                  *)

ArrayReplies ==
    {GatewayReply("[]"),
     GatewayReply(" [ ] \n"),
     GatewayReply("[{\"condition\": \"PTSD\", \"icd10\": \"F43.1\"}]"),
     GatewayReply("[{\"condition\": \"Tinnitus\", \"icd10\": \"H93.1\"}, {\"icd10\": \"F43\"}]")}

EarlierMappings ==
    {<<>>,
     <<JObj([condition |-> JStr("Tinnitus"), icd10 |-> JStr("H93.1")])>>,
     <<JObj([condition |-> JStr("Asthma"), selected_for_claim |-> JBool(TRUE)]),
       JObj([condition |-> JStr("PTSD"), icd10 |-> JStr("F43.1")])>>}

MappingAggregates ==
    {AfterRerun(Aggregate(p, i, m, n, <<>>, "", d, e)) :
        p \in {<<>>} \cup ProfileEdits, i \in {<<>>, <<[label |-> "PTSD", details |-> ""]>>},
        m \in EarlierMappings, n \in {"ringing ears", " night sweats\n"},
        d \in GenerationDocuments, e \in {"", "Old summary."}}

InitMapping ==
    /\ arg \in {[st |-> SessionWith(a, ""), ev |-> [Event("analyze") EXCEPT !.resp = r]] :
                   a \in MappingAggregates, r \in ArrayReplies}
    /\ pc = "start"
    /\ out = <<>>
    /\ storage = FileAbsent
    /\ sess = NoSessions
    /\ now = 0
    /\ runs = 0

\* The run of main that the analysis button starts.
MappingStep ==
    /\ pc = "start"
    /\ out' = main(arg.st, storage, arg.ev, now)
    /\ pc' = "done"
    /\ UNCHANGED <<storage, sess, now, runs, arg>>

NextMapping == MappingStep

SpecMapping == InitMapping /\ [][NextMapping]_vars

\* The mappings without the selection mark that the same run writes
Unmarked(ms) ==
    [i \in 1..Len(ms) |->
        JObj([k \in (DOMAIN ms[i].flds) \ {"selected_for_claim"} |-> ms[i].flds[k]])]

\* C12: after a mapping call whose completion parses as a JSON array, of
\* any length, the mappings of the aggregate are the entries of that array
\* (each with the selection mark of the run) and nothing of the list that
\* was there before.
C12_MappingsReplaced ==
    pc = "done" =>
        LET data == json_loads(call_gpt(arg.ev.resp))
        IN data.ok /\ data.val.t = "arr"
           /\ Unmarked(out.st.app_data["symptom_mappings"]) = data.val.items

---------------------------------------------------------------------------
(* SpecClaims: the runs of one session that the statement text, the save   *)
(* button and the remove buttons start, while the clock runs or stands.    *)

MaxClaimRuns == 5

ClaimEvents == {ev \in Events : ev.kind \in {"statement", "save", "remove"}}

ClaimRun == runs < MaxClaimRuns /\ RunOn(1, ClaimEvents)

NextClaims == ClaimRun \/ Tick

SpecClaims == Init /\ [][NextClaims]_vars

\* The saved statements of a session
ClaimsOf(st) == IF st.loaded THEN st.app_data["claims"] ELSE <<>>

\* C13: the saved statements of a session have pairwise distinct ids.
C13_ClaimIdsDistinct ==
    \A s \in Sessions :
        \A i, j \in 1..Len(ClaimsOf(sess[s])) :
            i # j => ClaimsOf(sess[s])[i].id # ClaimsOf(sess[s])[j].id

---------------------------------------------------------------------------
(* SpecLifecycle: runs of two sessions over one file, with what the page   *)
(* of the last run showed: whether the run raised, whether the save        *)
(* failed.                                                                 *)

MaxLifecycleRuns == 3

LifecycleEvents ==
    {ev \in Events :
        \/ ev.kind \in {"rerun", "profile", "evidence"}
        \/ (ev.kind = "uploads" /\ ev.files \in {<<FileA>>, <<FileA2, FileB, FileA>>})}

\* The end of a run whose page is observed.
ObservedEnds(s, r, outcome) ==
    /\ RunEnds(s, r, outcome)
    /\ out' = [session |-> s, raised |-> r.raised, outcome |-> outcome]

ObservedRun(s) ==
    /\ pc = "main"
    /\ runs < MaxLifecycleRuns
    /\ \E ev \in LifecycleEvents, outcome \in SaveOutcomes :
          ObservedEnds(s, main(sess[s], storage, ev, now), outcome)
    /\ runs' = runs + 1
    /\ UNCHANGED <<now, arg, pc>>

NextLifecycle ==
    \/ \E s \in Sessions : ObservedRun(s)
    \/ \E s \in Sessions : NewSession(s)
    \/ Tick

SpecLifecycle == Init /\ [][NextLifecycle]_vars

\* A file whose content makes load_app_data raise
FileNull == FileJson(JOther("null", {}))

\* C14: after a run that completed and whose write succeeded, the file
\* holds the aggregate of the session that ran; a session loads the
\* aggregate in its first run, and a run of a session that has its
\* aggregate does not read the file: it ends as it would with a file that
\* cannot be loaded.
C14_LoadOnceSaveEveryRun ==
    /\ [](out # <<>> /\ ~out.raised /\ out.outcome = "written"
             /\ sess[out.session].loaded
          => storage = FileJson(JObject(sess[out.session].app_data)))
    /\ [][\A s \in Sessions :
             /\ (sess[s].loaded /\ sess'[s] # sess[s] /\ sess'[s].loaded
                    => \E ev \in LifecycleEvents :
                          sess'[s] = main(sess[s], FileNull, ev, now).st)
             /\ (~sess[s].loaded /\ sess'[s].loaded
                    => \E ev \in LifecycleEvents :
                          sess'[s] = main(FreshSession, storage, ev, now).st)]_vars

\* Session 1 has run again and saved after session 2 had stored a second
\* document: the file holds the aggregate of session 1, without it.
C14_Witness ==
    /\ out # <<>>
    /\ out.session = 1 /\ ~out.raised /\ out.outcome = "written"
    /\ sess[1].loaded /\ sess[2].loaded
    /\ Len(sess[1].app_data["documents"]) = 1
    /\ Len(sess[2].app_data["documents"]) = 2
    /\ sess[1].app_data["evidence_summary"] = "Edited summary."
    /\ storage = FileJson(JObject(sess[1].app_data))


\* C15: whenever a run of either session completes and its write succeeds,
\* the file becomes the whole aggregate of that session, whatever the file
\* held before and whatever the other session holds: nothing of the file is
\* kept or merged, and no write is refused because the file has changed
\* since the session loaded it.
C15_LastSaveWins ==
    [][runs' # runs /\ ~out'.raised /\ out'.outcome = "written"
          => /\ storage'.kind = "json"
             /\ storage'.val.top = "object"
             /\ storage'.val.data = sess'[out'.session].app_data]_vars

\* Session 2 holds a document that session 1 lacks, and session 1 has
\* saved last, in the third run: the file holds the aggregate of session 1
\* and the document is not in it.
C15_Witness ==
    /\ out # <<>>
    /\ out.session = 1 /\ ~out.raised /\ out.outcome = "written"
    /\ sess[1].loaded /\ sess[2].loaded
    /\ sess[1].app_data["documents"] = <<>>
    /\ sess[1].app_data["veteran_profile"]["full_name"] = "Ann Lee"
    /\ Len(sess[2].app_data["documents"]) = 1
    /\ storage.kind = "json"
    /\ storage.val.data["documents"] = <<>>
    /\ runs = 3

---------------------------------------------------------------------------
(* SpecExtract: extract_text_from_bytes on uploads of every declared type, *)
(* with bytes the readers can and cannot handle, and the upload loop on    *)
(* the same upload.                                                        *)

ExtractTypes ==
    {"text/plain", "text/csv", "application/pdf", DocxMime, "image/png", "", NoType}

ExtractContents ==
    {Content(n, u, p, d) :
        n \in {0, 7}, u \in {"", "hi"},
        p \in {Unparsable, Parsed(<<>>), Parsed(<<"p1", "">>)},
        d \in {Unparsable, Parsed(<<"a", "b">>)}}

InitExtract ==
    /\ arg \in {Upload(n, t, c) : n \in {"a.txt", "scan"}, t \in ExtractTypes,
                                  c \in ExtractContents}
    /\ pc = "start"
    /\ out = <<>>
    /\ storage = FileAbsent
    /\ sess = NoSessions
    /\ now = 0
    /\ runs = 0

ExtractStep ==
    /\ pc = "start"
    /\ out' = [result |-> extract_text_outcome(arg.content, arg.type, arg.name),
               documents |-> process_uploads(<<>>, <<arg>>, now)]
    /\ pc' = "extracted"
    /\ UNCHANGED <<storage, sess, now, runs, arg>>

NextExtract == ExtractStep

SpecExtract == InitExtract /\ [][NextExtract]_vars

\* The reader of the declared type fails on the bytes
ReaderFails(up) ==
    \/ (up.type = "application/pdf" /\ ~up.content.pdf.ok)
    \/ (up.type = DocxMime /\ ~up.content.docx.ok)

\* C16: extract_text_from_bytes does not raise, for every declared type
\* and content; when the reader fails the text is empty; and the upload
\* loop stores the document with the text returned.
C16_ExtractNeverRaises ==
    pc = "extracted" =>
        /\ ~out.result.raised
        /\ (ReaderFails(arg) => out.result.text = "")
        /\ Len(out.documents) = 1
        /\ out.documents[1].name = arg.name
        /\ out.documents[1].text = out.result.text

\* A PDF that the reader cannot parse was stored with empty text.
C16_Witness ==
    /\ pc = "extracted"
    /\ arg.type = "application/pdf"
    /\ ~arg.content.pdf.ok
    /\ arg.content.utf8 # ""
    /\ Len(out.documents) = 1
    /\ out.documents[1].text = ""

---------------------------------------------------------------------------
(* The prompt of the personal statement *)

\* The mapping lines with the focus taken as given, also when it is empty.
RECURSIVE StatementMappingLinesStrict(_, _)
StatementMappingLinesStrict(ms, focus_conditions) ==
    IF Len(ms) = 0 THEN <<>>
    ELSE (IF MGet(ms[1], "condition") \notin Range(focus_conditions)
          THEN <<>>
          ELSE <<"- " \o PyStr(MGet(ms[1], "condition"))
                 \o " (ICD-10 " \o PyStr(MGet(ms[1], "icd10"))
                 \o ", system: " \o PyStr(MGet(ms[1], "body_system")) \o ") "
                 \o "Hint: " \o PyStr(MGet(ms[1], "va_rating_hint"))>>)
         \o StatementMappingLinesStrict(Tail(ms), focus_conditions)

\* mapping_lines: a line for every mapping, those outside a non-empty
\* focus left out
RECURSIVE StatementMappingLines(_, _)
StatementMappingLines(ms, focus_conditions) ==
    IF Len(ms) = 0 THEN <<>>
    ELSE (IF focus_conditions # <<>>
             /\ MGet(ms[1], "condition") \notin Range(focus_conditions)
          THEN <<>>
          ELSE <<"- " \o PyStr(MGet(ms[1], "condition"))
                 \o " (ICD-10 " \o PyStr(MGet(ms[1], "icd10"))
                 \o ", system: " \o PyStr(MGet(ms[1], "body_system")) \o ") "
                 \o "Hint: " \o PyStr(MGet(ms[1], "va_rating_hint"))>>)
         \o StatementMappingLines(Tail(ms), focus_conditions)

\* prof_lines
StatementProfileLines(prof) ==
    LabelledLine(prof, "full_name", "Name: ")
    \o LabelledLine(prof, "branch", "Branch: ")
    \o LabelledLine(prof, "service_dates", "Service dates: ")
    \o LabelledLine(prof, "deployment_locations", "Deployments: ")
    \o LabelledLine(prof, "mos_duties", "Duties: ")
    \o LabelledLine(prof, "other_notes", "Other context: ")

\* issue_lines
StatementIssueLines(issues) ==
    LET labels == IssueLabels(issues)
    IN [i \in 1..Len(labels) |-> "- " \o labels[i]]

\* user_prompt of build_personal_statement
statement_user_prompt(app, claim_title, focus_conditions) ==
    "Claim focus title:\n" \o claim_title \o "\n\n"
    \o "Veteran background:\n"
    \o Join("\n", StatementProfileLines(Get(app, "veteran_profile", <<>>))) \o "\n\n"
    \o "High level claimed issues:\n"
    \o Join("\n", StatementIssueLines(Get(app, "issues", <<>>))) \o "\n\n"
    \o "Selected conditions and VA rating hints:\n"
    \o Join("\n", StatementMappingLines(Get(app, "symptom_mappings", <<>>), focus_conditions))
    \o "\n\n"
    \o "Evidence summary prepared from records:\n"
    \o Get(app, "evidence_summary", "") \o "\n\n"
    \o "Write a lay statement for this claim. "
    \o "Use first person, talk through a typical day, and explain functional impact. "
    \o "End with a short paragraph thanking the rater and confirming that the statement "
    \o "is true to the best of the veteran's knowledge."

---------------------------------------------------------------------------
(* SpecPrompt: the statement prompt and the chat context of aggregates     *)
(* with empty and non-empty sections, for every focus set.                 *)

PromptMappings ==
    {<<>>,
     <<JObj([condition |-> JStr("Tinnitus"), icd10 |-> JStr("H93.1"),
             body_system |-> JStr("ear"), va_rating_hint |-> JStr("10")])>>,
     <<JObj([condition |-> JStr("PTSD"), icd10 |-> JStr("F43.1")]),
       JObj([icd10 |-> JStr("J45")]),
       JObj([condition |-> JStr("Tinnitus"), icd10 |-> JStr("H93.1")]),
       JObj([condition |-> JStr("PTSD"), va_rating_hint |-> JStr("30")])>>}

PromptFocusSets ==
    {<<>>, <<JStr("Tinnitus")>>, <<JStr("PTSD")>>, <<JStr("Tinnitus"), JStr("PTSD")>>,
     <<JStr("Asthma")>>}

PromptProfiles ==
    {<<>>,
     [full_name |-> "", branch |-> "", service_dates |-> "", deployment_locations |-> "",
      mos_duties |-> "", other_notes |-> ""],
     [full_name |-> "Ann Lee", branch |-> "Army", service_dates |-> "",
      deployment_locations |-> "", mos_duties |-> "", other_notes |-> ""]}

PromptAggregates ==
    {Aggregate(p, i, m, "", <<>>, "", d, e) :
        p \in PromptProfiles,
        i \in {<<>>, <<[label |-> "knee", details |-> ""], [label |-> "PTSD", details |-> ""]>>},
        m \in PromptMappings, d \in GenerationDocuments, e \in {"", "Old summary."}}

InitPrompt ==
    /\ arg \in {[app |-> a, title |-> "Hearing loss", focus |-> f] :
                   a \in PromptAggregates, f \in PromptFocusSets}
    /\ pc = "start"
    /\ out = <<>>
    /\ storage = FileAbsent
    /\ sess = NoSessions
    /\ now = 0
    /\ runs = 0

BuildPromptStep ==
    /\ pc = "start"
    /\ out' = [prompt |-> statement_user_prompt(arg.app, arg.title, arg.focus),
               context |-> build_chat_context(arg.app)]
    /\ pc' = "built"
    /\ UNCHANGED <<storage, sess, now, runs, arg>>

NextPrompt == BuildPromptStep

SpecPrompt == InitPrompt /\ [][NextPrompt]_vars

\* The mappings the focus set lets through
FocusedMappings(ms, focus) ==
    IF focus = <<>> THEN ms
    ELSE SelectSeq(ms, LAMBDA m : \E k \in 1..Len(focus) : MGet(m, "condition") = focus[k])

\* C17: a section whose source is empty contributes neither its label nor
\* an empty block, in the statement prompt and in the chat context.
C17_EmptySectionsSkipped ==
    pc = "built" =>
        LET app == arg.app
            noProfile == StatementProfileLines(app["veteran_profile"]) = <<>>
            noIssues == IssueLabels(app["issues"]) = <<>>
            noMappings == FocusedMappings(app["symptom_mappings"], arg.focus) = <<>>
            noSummary == app["evidence_summary"] = ""
            noText == \A i \in 1..Len(app["documents"]) : app["documents"][i].text = ""
        IN /\ noProfile => ~Contains(out.prompt, "Veteran background:")
           /\ noIssues => ~Contains(out.prompt, "High level claimed issues:")
           /\ noMappings => ~Contains(out.prompt, "Selected conditions and VA rating hints:")
           /\ noSummary => ~Contains(out.prompt, "Evidence summary prepared from records:")
           /\ noProfile => ~Contains(out.context, "Profile:")
           /\ noIssues => ~Contains(out.context, "Claimed issues:")
           /\ noSummary => ~Contains(out.context, "Evidence summary:")
           /\ noText => ~Contains(out.context, "Record snippets:")

\* The bullet line of a mapping
MappingBullet(m) ==
    "- " \o PyStr(MGet(m, "condition")) \o " (ICD-10 " \o PyStr(MGet(m, "icd10"))
    \o ", system: " \o PyStr(MGet(m, "body_system")) \o ") Hint: "
    \o PyStr(MGet(m, "va_rating_hint"))

\* C18: the bullet list of the statement prompt holds a line for exactly
\* the mappings whose condition is in the focus set, in stored order, and
\* for every mapping, in stored order, when the focus set is empty.
C18_FocusFilter ==
    pc = "built" =>
        LET chosen == FocusedMappings(arg.app["symptom_mappings"], arg.focus)
            bullets == [i \in 1..Len(chosen) |-> MappingBullet(chosen[i])]
        IN Contains(out.prompt,
                    "\n\nSelected conditions and VA rating hints:\n"
                    \o Join("\n", bullets)
                    \o "\n\nEvidence summary prepared from records:\n")

\* Four mappings, two of them PTSD with one mapping without a condition
\* and one Tinnitus in between, and the focus on PTSD: two bullets.
C18_Witness ==
    /\ pc = "built"
    /\ Len(arg.app["symptom_mappings"]) = 4
    /\ arg.focus = <<JStr("PTSD")>>
    /\ Contains(out.prompt,
                "hints:\n- PTSD (ICD-10 F43.1, system: None) Hint: None\n"
                \o "- PTSD (ICD-10 None, system: None) Hint: 30\n\nEvidence")

---------------------------------------------------------------------------
\* C19: the snippets of the chat context come from the first 3 documents
\* of the documents sequence only: a document at position 4 or later
\* contributes nothing, also when some of the first 3 have empty text.
C19_SnippetsFromFirstThree ==
    pc = "built" => \A p \in Contributors(out, arg.documents) : p <= SnippetCount

---------------------------------------------------------------------------
(* SpecDocuments: the runs of one session on every event, with time       *)
(* passing in between.                                                     *)

MaxDocumentRuns == 3

DocumentRun == runs < MaxDocumentRuns /\ RunOn(1, Events)

NextDocuments == DocumentRun \/ Tick

SpecDocuments == Init /\ [][NextDocuments]_vars

\* The documents of after that come behind those of before
Appended(before, after) == SubSeq(after, Len(before) + 1, Len(after))

\* C20: the documents of a session are append-only: whatever the event,
\* a run of the session leaves every document it had at its position with
\* its id, name, media type, size, upload time and text (the notes alone
\* may differ), and what it adds comes behind them: documents of files the
\* uploader holds, of ids the session did not have.
C20_DocumentsAppendOnly ==
    [][\A s \in Sessions :
          sess[s].loaded /\ sess'[s].loaded =>
             LET before == DocumentsOf(sess[s])
                 after == DocumentsOf(sess'[s])
                 kept == {"id", "name", "mime", "size", "uploaded_at", "text"}
             IN /\ Len(after) >= Len(before)
                /\ \A i \in 1..Len(before) :
                      /\ DOMAIN after[i] = DOMAIN before[i]
                      /\ \A f \in kept : after[i][f] = before[i][f]
                /\ \A d \in Range(Appended(before, after)) :
                      /\ d.id \notin {before[i].id : i \in 1..Len(before)}
                      /\ \E k \in 1..Len(sess'[s].uploads) :
                            d.id = doc_id(sess'[s].uploads[k].name,
                                          sess'[s].uploads[k].content.size)]_vars

\* A session whose first document was stored at time 0 and has been given
\* a note, and whose second document was added behind it at time 1.
C20_Witness ==
    \E s \in Sessions :
        /\ sess[s].loaded
        /\ Len(DocumentsOf(sess[s])) = 2
        /\ DocumentsOf(sess[s])[1].id = "a.txt:2"
        /\ DocumentsOf(sess[s])[1].uploaded_at = IsoFormat(0) \o "Z"
        /\ DocumentsOf(sess[s])[1].notes = "see p. 2"
        /\ DocumentsOf(sess[s])[2].uploaded_at = IsoFormat(1) \o "Z"

---------------------------------------------------------------------------
(* SpecClaimActions: the runs of one session with the event of each run    *)
(* on record, while the clock runs or stands.                              *)

MaxClaimActionRuns == 6

\* The events on the saved statements, and events of other tabs.
ClaimActionEvents ==
    ClaimEvents
    \cup {ev \in Events :
             \/ ev.kind \in {"rerun", "profile"}
             \/ (ev.kind = "uploads" /\ ev.files = <<FileA>>)
             \/ (ev.kind = "generate" /\ ev.title = "typed" /\ ev.focus = "default"
                 /\ ev.resp # GatewayFailure)}

\* The script runs once on the event ev, which is kept.
ClaimActionRun ==
    /\ runs < MaxClaimActionRuns
    /\ pc = "main"
    /\ \E ev \in ClaimActionEvents, outcome \in SaveOutcomes :
          /\ RunEnds(1, main(sess[1], storage, ev, now), outcome)
          /\ arg' = ev
    /\ runs' = runs + 1
    /\ UNCHANGED <<now, out, pc>>

NextClaimActions == ClaimActionRun \/ Tick

SpecClaimActions == Init /\ [][NextClaimActions]_vars

\* C21: the saved statements change by the save and the remove buttons
\* only: a save with a statement that is not blank adds one entry behind
\* those there, which stay as they are; a press on the remove button of an
\* entry takes out that entry, the one entry with its id, and keeps the
\* others in order; any other run leaves the saved statements alone.
C21_ClaimsChangeBySaveRemove ==
    [][runs' # runs =>
          LET ev == arg'
              before == ClaimsOf(sess[1])
              after == ClaimsOf(sess'[1])
          IN IF ev.kind = "save" /\ Strip(sess[1].generated) # ""
             THEN /\ Len(after) = Len(before) + 1
                  /\ SubSeq(after, 1, Len(before)) = before
             ELSE IF ev.kind = "remove" /\ ev.idx \in 1..Len(before)
             THEN /\ Len(after) = Len(before) - 1
                  /\ after = SelectSeq(before, LAMBDA c : c.id # before[ev.idx].id)
             ELSE after = before]_vars

---------------------------------------------------------------------------
(* SpecIssues: one run of main in which the text of the issue list has     *)
(* been edited, in a session that has an issue list already.               *)

MaxIssueLines == 3

\* Lines as typed: empty, blank, and labels with white space around them
IssueLinesTyped == {"", " \t", " knee ", "PTSD", "\tknee"}

IssueTexts == {Join("\n", ls) : ls \in SeqsUpTo(IssueLinesTyped, MaxIssueLines)}

EarlierIssues ==
    {<<>>,
     <<[label |-> "asthma", details |-> "since 1991"]>>,
     <<[label |-> "knee", details |-> ""], [label |-> "PTSD", details |-> ""]>>}

InitIssues ==
    /\ arg \in {[app |-> Aggregate(<<>>, i, <<>>, "", <<>>, "", <<>>, ""), text |-> x] :
                   i \in EarlierIssues, x \in IssueTexts \cup {"PTSD\n", "\n\nknee\n\n"}}
    /\ pc = "start"
    /\ out = <<>>
    /\ storage = FileAbsent
    /\ sess = NoSessions
    /\ now = 0
    /\ runs = 0

EditIssuesStep ==
    /\ pc = "start"
    /\ out' = main(SessionWith(arg.app, ""), storage,
                   [Event("issues") EXCEPT !.text = arg.text], now)
    /\ pc' = "done"
    /\ UNCHANGED <<storage, sess, now, runs, arg>>

NextIssues == EditIssuesStep

SpecIssues == InitIssues /\ [][NextIssues]_vars

\* The lines of the text that are not blank
NonBlankLines(text) == SelectSeq(Split(text, "\n"), LAMBDA l : Strip(l) # "")

\* C22: after a run with an edit of the issue text, the issues are the
\* non-blank lines of the text, trimmed, in the order of the text, one
\* entry per line also when a label repeats, and nothing of the issues the
\* session had before.
C22_IssuesRebuilt ==
    pc = "done" =>
        /\ ~out.raised
        /\ out.st.app_data["issues"] =
              [i \in 1..Len(NonBlankLines(arg.text)) |->
                  [label |-> Strip(NonBlankLines(arg.text)[i]), details |-> ""]]

\* The session had the issue asthma with details; the text has knee twice,
\* differently spaced, with PTSD in between: three issues, knee twice,
\* asthma not among them.
C22_Witness ==
    /\ pc = "done"
    /\ arg.app["issues"] = <<[label |-> "asthma", details |-> "since 1991"]>>
    /\ arg.text = "\tknee\nPTSD\n knee "
    /\ Len(out.st.app_data["issues"]) = 3
    /\ out.st.app_data["issues"][1].label = "knee"
    /\ out.st.app_data["issues"][2].label = "PTSD"
    /\ out.st.app_data["issues"][3].label = "knee"

===========================================================================
